---- MODULE Spec2Model ----
(***************************************************************************)
(* The photo editor's App component: the snapshot history, the two mask    *)
(* surfaces (magic fill and freestyle protection) and the edit handlers    *)
(* that call the external image service.                                   *)
(*                                                                         *)
(* One step of the model is one React event: a handler runs to its end (or *)
(* to its await), the state updates it made are committed, the component   *)
(* re-renders (mask canvases are mounted or unmounted by renderContent)    *)
(* and the effects of that render run (the resize effect).  The part of an *)
(* async handler after its await is a step of its own (Settle).            *)
(*                                                                         *)
(* Specifications that share the handlers:                                 *)
(*   Spec   the handlers as the rendered controls let the user reach them  *)
(*          (a control that is not rendered or is disabled cannot fire);   *)
(*   SpecH  the synchronous handlers called directly, in any state;        *)
(*   SpecV  Spec plus the edit handlers called from their displayed panel, *)
(*          whatever the disabled attribute of the control says;           *)
(*   SpecM  the mask surfaces alone, on wider canvases and deeper stroke   *)
(*          stacks, with no external call;                                *)
(*   SpecS  SpecM plus the magic fill call, issued and settled;            *)
(*   SpecB  the two mask surfaces used in turn, with their brush sizes.    *)
(* Specifications of the pure computations, whose Init draws the inputs:   *)
(*   SpecR  the rasterization of a mask surface to a native mask;          *)
(*   SpecC  the mapping of a click to a native coordinate;                 *)
(*   SpecF  the classification of a failure by formatErrorMessage.         *)
(* SpecU follows the object URLs that App and CombinePanel create and      *)
(* revoke over the commits of the two components.                          *)
(***************************************************************************)
EXTENDS Integers, Sequences, FiniteSets, TLC

\* ---------------------------------------------------------------- bounds
MaxHistory == 2      \* longest history the model lets an append build
MaxInflight == 2     \* external calls the model lets be outstanding at once
NumPixels == 1       \* widest layout of the image, in pixels of a mask surface
MaxStrokes == 1      \* depth of a mask's stroke stack
MaskPixels == 2      \* widest layout when the mask surfaces are explored alone
MaskStrokes == 2     \* depth of a stroke stack when they are explored alone

\* ------------------------------------------------------------- constants
NoFile == 0                      \* null File
NoMsg == "none"                  \* null loadingMessage / error
NoCrop == 0 - 1                  \* undefined crop / completedCrop
NoPoint == [x |-> 0 - 1, y |-> 0 - 1]   \* null hotspot
SecondFile == 100                \* the File the user attaches as second image

Tabs == {"retouch", "magicfill", "freestyle", "combine", "faceswap", "adjust", "filters", "crop"}
MaskTabs == {"magicfill", "freestyle"}
Pixels == 1 .. NumPixels
Prompts == {"", " ", "fix"}     \* instruction texts handed to a handler
TypedPrompts == {"", "fix"}      \* texts typed into the two prompt fields of App
CropWidths == {0, 2}             \* widths of a selection: a click, a drag
MaxSurface == 2                  \* largest width of a mask canvas that is rasterized
MaxNatural == 3                  \* largest naturalWidth, naturalHeight of an <img>
MaxClient == 3                   \* largest clientWidth, clientHeight of an <img>
NaturalSize == 4                 \* naturalWidth = naturalHeight of the image
ClientSize == 2                  \* clientWidth = clientHeight of the <img>
MediumBrush == 30                \* useState<number>(30) of the two brush sizes
BrushSizes == {15, MediumBrush, 60}   \* the S, M, L buttons of the two mask panels
ClickOffsets == {1}              \* offsetX = offsetY of a click on the image

VARIABLES
    history, historyIndex, prompt, loadingMessage, error,
    editHotspot, displayHotspot, activeTab, secondaryImage,
    crop, completedCrop, magicFillPrompt,
    isErasing, isMaskDrawn, maskCanvas, isDrawing, maskHistory, canUndoMask,
    imgWidth, canvasWidth,
    inflight, lastOp,
    brushSize,
    calc

vars == <<history, historyIndex, prompt, loadingMessage, error,
          editHotspot, displayHotspot, activeTab, secondaryImage,
          crop, completedCrop, magicFillPrompt,
          isErasing, isMaskDrawn, maskCanvas, isDrawing, maskHistory, canUndoMask,
          imgWidth, canvasWidth,
          inflight, lastOp, brushSize, calc>>

histVars == <<history, historyIndex>>
maskFlags == <<isErasing, isMaskDrawn, isDrawing, maskHistory, canUndoMask>>
hotspots == <<editHotspot, displayHotspot>>
cropVars == <<crop, completedCrop>>

\* ------------------------------------------------------- derived values
\* history[historyIndex] ?? null
ImageAt(h, i) == IF i >= 0 /\ i < Len(h) THEN h[i + 1] ELSE NoFile
currentImage == ImageAt(history, historyIndex)
originalImage == ImageAt(history, 0)
\* canUndo with the first snapshot counted as undoable
canUndoAtFirst == historyIndex >= 0
canUndo == historyIndex > 0
\* canRedo with the bound off by one
canRedoPastEnd == historyIndex < Len(history)
canRedo == historyIndex < Len(history) - 1

\* prompt.trim()
trim(p) == IF p = " " THEN "" ELSE p

\* ------------------------------------------------------------ rendering
\* renderContent: the error panel replaces everything; without a current
\* image the start screen is shown; otherwise the editor.
ErrorPanel == error # NoMsg
StartScreen == error = NoMsg /\ currentImage = NoFile
Editor == error = NoMsg /\ currentImage # NoFile
isLoading == loadingMessage # NoMsg

\* every ternary picking the magic fill ref and setter
RefTabAlwaysFill(tab) == "magicfill"
\* activeTab === 'magicfill' ? magicFill... : freestyle...
RefTab(tab) == IF tab = "magicfill" THEN "magicfill" ELSE "freestyle"

\* The <canvas> of mask m is in the DOM (its ref is non-null).
CanvasMountedIn(err, h, i, tab, loading, m) ==
    err = NoMsg /\ ImageAt(h, i) # NoFile /\ tab = m /\ loading = NoMsg
CanvasMounted(m) ==
    CanvasMountedIn(error, history, historyIndex, activeTab, loadingMessage, m)

\* width of a <canvas> element before anything assigns it: the default of
\* an element rendered without a width attribute
DefaultCanvasWidth == 1

\* The effect that holds resizeCanvases runs after a render in which one of
\* its dependencies, currentImageUrl and activeTab, has changed.
ResizeEffectRuns ==
    ImageAt(history', historyIndex') # currentImage \/ activeTab' # activeTab

\* The render that follows a handler, and the resize effect: a canvas that
\* is unmounted loses its pixels, a canvas that is mounted starts
\* transparent with the default width, and a change of the current image or
\* of the tab re-runs resizeCanvases, whose assignment of the image's width
\* to the width of a mounted canvas clears it.  imgWidth is the width of the
\* image's bounding rectangle, which the layout keeps until the window is
\* resized.  The pixels of a canvas are 1 .. canvasWidth.
Render(canvasAfter) ==
    /\ UNCHANGED imgWidth
    /\ canvasWidth' = [m \in MaskTabs |->
        IF CanvasMountedIn(error', history', historyIndex', activeTab', loadingMessage', m)
        THEN IF ResizeEffectRuns THEN imgWidth
             ELSE IF CanvasMounted(m) THEN canvasWidth[m] ELSE DefaultCanvasWidth
        ELSE DefaultCanvasWidth]
    /\ maskCanvas' = [m \in MaskTabs |->
        IF /\ CanvasMounted(m)
           /\ CanvasMountedIn(error', history', historyIndex', activeTab', loadingMessage', m)
           /\ ~ResizeEffectRuns
        THEN canvasAfter[m] ELSE {}]

\* A File object that nothing refers to yet: every upload and every decoded
\* result is a new object, different from all that the history and the
\* closures of the outstanding calls still hold.
Range(s) == {s[k] : k \in 1 .. Len(s)}
LiveFiles == Range(history) \cup UNION {Range(inflight[k].h) : k \in 1 .. Len(inflight)}
NewFile == CHOOSE f \in 1 .. Cardinality(LiveFiles) + 1 : f \notin LiveFiles

\* The runs explored keep the user on one tool at a time: a tool is taken
\* up only while the state of the other tools is at rest.
ToolAtRest(t) ==
    CASE t = "point" -> editHotspot = NoPoint /\ displayHotspot = NoPoint /\ prompt = ""
      [] t = "attach" -> crop = NoCrop /\ completedCrop = NoCrop /\ secondaryImage = NoFile
      [] t = "magicfill" ->
            /\ ~isMaskDrawn[t] /\ maskHistory[t] = <<>> /\ ~isErasing[t] /\ ~canUndoMask[t]
            /\ magicFillPrompt = ""
      [] t = "freestyle" ->
            ~isMaskDrawn[t] /\ maskHistory[t] = <<>> /\ ~isErasing[t] /\ ~canUndoMask[t]
OnlyTool(t) == \A u \in {"point", "attach", "magicfill", "freestyle"} \ {t} : ToolAtRest(u)

\* No stroke is in progress: the pointer is free to press another control.
NoStroke == \A m \in MaskTabs : ~isDrawing[m]

\* calc holds the input and the result of a pure computation when one is
\* explored on its own; the component never touches it.
NoCalc == [fn |-> "none"]

\* lastOp records which handler ran last and how it left ("set" for the
\* plain state setters); no handler reads it.
AppInit ==
    /\ history = <<>>
    /\ historyIndex = 0 - 1
    /\ prompt = ""
    /\ loadingMessage = NoMsg
    /\ error = NoMsg
    /\ editHotspot = NoPoint
    /\ displayHotspot = NoPoint
    /\ activeTab = "retouch"
    /\ secondaryImage = NoFile
    /\ crop = NoCrop
    /\ completedCrop = NoCrop
    /\ magicFillPrompt = ""
    /\ isErasing = [m \in MaskTabs |-> FALSE]
    /\ isMaskDrawn = [m \in MaskTabs |-> FALSE]
    /\ maskCanvas = [m \in MaskTabs |-> {}]
    /\ isDrawing = [m \in MaskTabs |-> FALSE]
    /\ maskHistory = [m \in MaskTabs |-> <<>>]
    /\ canUndoMask = [m \in MaskTabs |-> FALSE]
    /\ imgWidth = 1
    /\ canvasWidth = [m \in MaskTabs |-> DefaultCanvasWidth]
    /\ inflight = <<>>
    /\ lastOp = "init"
    /\ brushSize = [m \in MaskTabs |-> MediumBrush]

Init == AppInit /\ calc = NoCalc

\* ------------------------------------------------------ snapshot history
\* the append without the slice: the redo branch is kept
newHistoryNoSlice(h, i, f) == Append(h, f)
\* history.slice(0, historyIndex + 1) followed by the new file
newHistory(h, i, f) == Append(SubSeq(h, 1, i + 1), f)

\* addImageToHistory without its reset of the crop selection
addImageToHistoryKeepingCrop(h, i, f) ==
    /\ history' = newHistory(h, i, f)
    /\ historyIndex' = Len(newHistory(h, i, f)) - 1
    /\ UNCHANGED cropVars
    /\ secondaryImage' = NoFile

\* addImageToHistory reading the history and historyIndex of the latest
\* render instead of those of its closure
addImageToHistoryOfLatest(h, i, f) ==
    /\ history' = newHistory(history, historyIndex, f)
    /\ historyIndex' = Len(newHistory(history, historyIndex, f)) - 1
    /\ crop' = NoCrop
    /\ completedCrop' = NoCrop
    /\ secondaryImage' = NoFile

\* addImageToHistory, with the history and historyIndex of its closure
addImageToHistory(h, i, f) ==
    /\ history' = newHistory(h, i, f)
    /\ historyIndex' = Len(newHistory(h, i, f)) - 1
    /\ crop' = NoCrop
    /\ completedCrop' = NoCrop
    /\ secondaryImage' = NoFile

handleImageUpload ==
    /\ error' = NoMsg
    /\ history' = <<NewFile>>
    /\ historyIndex' = 0
    /\ editHotspot' = NoPoint
    /\ displayHotspot' = NoPoint
    /\ activeTab' = "retouch"
    /\ crop' = NoCrop
    /\ completedCrop' = NoCrop
    /\ secondaryImage' = NoFile
    /\ lastOp' = "upload"
    /\ UNCHANGED <<prompt, loadingMessage, magicFillPrompt, maskFlags, inflight>>
    /\ UNCHANGED <<brushSize, calc>>
    /\ Render(maskCanvas)

handleUndo ==
    /\ IF canUndo
       THEN /\ historyIndex' = historyIndex - 1
            /\ editHotspot' = NoPoint
            /\ displayHotspot' = NoPoint
            /\ secondaryImage' = NoFile
            /\ lastOp' = "undo"
       ELSE /\ UNCHANGED <<historyIndex, hotspots, secondaryImage>>
            /\ lastOp' = "undo:noop"
    /\ UNCHANGED <<history, prompt, loadingMessage, error, activeTab, cropVars,
                   magicFillPrompt, maskFlags, inflight>>
    /\ UNCHANGED <<brushSize, calc>>
    /\ Render(maskCanvas)

handleRedo ==
    /\ IF canRedo
       THEN /\ historyIndex' = historyIndex + 1
            /\ editHotspot' = NoPoint
            /\ displayHotspot' = NoPoint
            /\ secondaryImage' = NoFile
            /\ lastOp' = "redo"
       ELSE /\ UNCHANGED <<historyIndex, hotspots, secondaryImage>>
            /\ lastOp' = "redo:noop"
    /\ UNCHANGED <<history, prompt, loadingMessage, error, activeTab, cropVars,
                   magicFillPrompt, maskFlags, inflight>>
    /\ UNCHANGED <<brushSize, calc>>
    /\ Render(maskCanvas)

\* a reset that goes back to the original by dropping the later snapshots
handleResetTruncating ==
    /\ IF Len(history) > 0
       THEN /\ history' = SubSeq(history, 1, 1)
            /\ historyIndex' = 0
            /\ error' = NoMsg
            /\ editHotspot' = NoPoint
            /\ displayHotspot' = NoPoint
            /\ secondaryImage' = NoFile
            /\ lastOp' = "reset"
       ELSE /\ UNCHANGED <<histVars, error, hotspots, secondaryImage>>
            /\ lastOp' = "reset:noop"
    /\ UNCHANGED <<prompt, loadingMessage, activeTab, cropVars,
                   magicFillPrompt, maskFlags, inflight>>
    /\ UNCHANGED <<brushSize, calc>>
    /\ Render(maskCanvas)

handleReset ==
    /\ IF Len(history) > 0
       THEN /\ historyIndex' = 0
            /\ error' = NoMsg
            /\ editHotspot' = NoPoint
            /\ displayHotspot' = NoPoint
            /\ secondaryImage' = NoFile
            /\ lastOp' = "reset"
       ELSE /\ UNCHANGED <<historyIndex, error, hotspots, secondaryImage>>
            /\ lastOp' = "reset:noop"
    /\ UNCHANGED <<history, prompt, loadingMessage, activeTab, cropVars,
                   magicFillPrompt, maskFlags, inflight>>
    /\ UNCHANGED <<brushSize, calc>>
    /\ Render(maskCanvas)

handleUploadNew ==
    /\ history' = <<>>
    /\ historyIndex' = 0 - 1
    /\ error' = NoMsg
    /\ prompt' = ""
    /\ editHotspot' = NoPoint
    /\ displayHotspot' = NoPoint
    /\ secondaryImage' = NoFile
    /\ lastOp' = "uploadNew"
    /\ UNCHANGED <<loadingMessage, activeTab, cropVars, magicFillPrompt,
                   maskFlags, inflight>>
    /\ UNCHANGED <<brushSize, calc>>
    /\ Render(maskCanvas)

\* ------------------------------------------------------ plain state setters
\* onClick={() => setActiveTab(tab)}
setActiveTab(tab) ==
    /\ activeTab' = tab
    /\ lastOp' = "set"
    /\ UNCHANGED <<histVars, prompt, loadingMessage, error, hotspots, secondaryImage,
                   cropVars, magicFillPrompt, maskFlags, inflight>>
    /\ UNCHANGED <<brushSize, calc>>
    /\ Render(maskCanvas)

setPrompt(p) ==
    /\ prompt' = p
    /\ lastOp' = "set"
    /\ UNCHANGED <<histVars, loadingMessage, error, hotspots, activeTab, secondaryImage,
                   cropVars, magicFillPrompt, maskFlags, inflight>>
    /\ UNCHANGED <<brushSize, calc>>
    /\ Render(maskCanvas)

setMagicFillPrompt(p) ==
    /\ magicFillPrompt' = p
    /\ lastOp' = "set"
    /\ UNCHANGED <<histVars, prompt, loadingMessage, error, hotspots, activeTab,
                   secondaryImage, cropVars, maskFlags, inflight>>
    /\ UNCHANGED <<brushSize, calc>>
    /\ Render(maskCanvas)

\* the error panel's button: onClick={() => setError(null)}
dismissError ==
    /\ error' = NoMsg
    /\ lastOp' = "dismissError"
    /\ UNCHANGED <<histVars, prompt, loadingMessage, hotspots, activeTab, secondaryImage,
                   cropVars, magicFillPrompt, maskFlags, inflight>>
    /\ UNCHANGED <<brushSize, calc>>
    /\ Render(maskCanvas)

handleSecondaryImageUpload ==
    /\ secondaryImage' = SecondFile
    /\ lastOp' = "set"
    /\ UNCHANGED <<histVars, prompt, loadingMessage, error, hotspots, activeTab,
                   cropVars, magicFillPrompt, maskFlags, inflight>>
    /\ UNCHANGED <<brushSize, calc>>
    /\ Render(maskCanvas)

handleClearSecondaryImage ==
    /\ secondaryImage' = NoFile
    /\ lastOp' = "set"
    /\ UNCHANGED <<histVars, prompt, loadingMessage, error, hotspots, activeTab,
                   cropVars, magicFillPrompt, maskFlags, inflight>>
    /\ UNCHANGED <<brushSize, calc>>
    /\ Render(maskCanvas)

\* ReactCrop onChange={c => setCrop(c)} and onComplete={c => setCompletedCrop(c)}
\* of one selection gesture
onCropSelect(w) ==
    /\ crop' = w
    /\ completedCrop' = w
    /\ lastOp' = "set"
    /\ UNCHANGED <<histVars, prompt, loadingMessage, error, hotspots, activeTab,
                   secondaryImage, magicFillPrompt, maskFlags, inflight>>
    /\ UNCHANGED <<brushSize, calc>>
    /\ Render(maskCanvas)

\* the native coordinate truncated instead of rounded
toNativeTruncated(offset, natural, client) == (offset * natural) \div client

\* Math.round(offset * (natural / client)) for offset >= 0
toNative(offset, natural, client) == (2 * offset * natural + client) \div (2 * client)

handleImageClick(off) ==
    /\ IF activeTab # "retouch"
       THEN /\ UNCHANGED hotspots
            /\ lastOp' = "click:ignored"
       ELSE /\ displayHotspot' = [x |-> off, y |-> off]
            /\ editHotspot' = [x |-> toNative(off, NaturalSize, ClientSize),
                               y |-> toNative(off, NaturalSize, ClientSize)]
            /\ lastOp' = "click"
    /\ UNCHANGED <<histVars, prompt, loadingMessage, error, activeTab, secondaryImage,
                   cropVars, magicFillPrompt, maskFlags, inflight>>
    /\ UNCHANGED <<brushSize, calc>>
    /\ Render(maskCanvas)

\* ------------------------------------------------------------ mask surface
\* every handler below picks its refs and setters by RefTab(activeTab)
setIsErasing(b) ==
    /\ isErasing' = [isErasing EXCEPT ![RefTab(activeTab)] = b]
    /\ lastOp' = "set"
    /\ UNCHANGED <<histVars, prompt, loadingMessage, error, hotspots, activeTab,
                   secondaryImage, cropVars, magicFillPrompt, isMaskDrawn, isDrawing,
                   maskHistory, canUndoMask, inflight>>
    /\ UNCHANGED <<brushSize, calc>>
    /\ Render(maskCanvas)

\* setMagicFillBrushSize / setFreestyleBrushSize, each handed to its own
\* panel; draw reads the size of the active tab into ctx.lineWidth
setBrushSize(m, size) ==
    /\ brushSize' = [brushSize EXCEPT ![m] = size]
    /\ lastOp' = "set"
    /\ UNCHANGED <<histVars, prompt, loadingMessage, error, hotspots, activeTab,
                   secondaryImage, cropVars, magicFillPrompt, maskFlags, inflight, calc>>
    /\ Render(maskCanvas)

\* ctx.getImageData(0, 0, ctx.canvas.width, ctx.canvas.height): an ImageData
\* of the canvas's width holding a copy of its pixels
\* a snapshot that copies no pixel of the canvas
getImageDataOfNothing(w, pixels) == [width |-> w, data |-> {}]
getImageData(w, pixels) == [width |-> w, data |-> pixels]

\* ctx.putImageData(imageData, 0, 0) on a canvas of width w: the pixels the
\* ImageData covers are overwritten, what lies beyond the canvas is dropped
\* and what the ImageData does not cover is kept
putImageData(w, pixels, imageData) ==
    (pixels \ (1 .. imageData.width)) \cup (imageData.data \cap (1 .. w))

startDrawing ==
    LET m == RefTab(activeTab) IN
    /\ IF isLoading \/ activeTab \notin MaskTabs \/ ~CanvasMounted(m)
       THEN /\ UNCHANGED <<maskHistory, canUndoMask, isDrawing>>
            /\ lastOp' = "startDrawing:ignored"
       ELSE /\ maskHistory' = [maskHistory EXCEPT
                                  ![m] = Append(@, getImageData(canvasWidth[m], maskCanvas[m]))]
            /\ canUndoMask' = [canUndoMask EXCEPT ![m] = TRUE]
            /\ isDrawing' = [isDrawing EXCEPT ![m] = TRUE]
            /\ lastOp' = "startDrawing"
    /\ UNCHANGED <<histVars, prompt, loadingMessage, error, hotspots, activeTab,
                   secondaryImage, cropVars, magicFillPrompt, isErasing, isMaskDrawn,
                   inflight>>
    /\ UNCHANGED <<brushSize, calc>>
    /\ Render(maskCanvas)

\* painting with globalCompositeOperation 'copy': the segment replaces the surface
strokeOntoReplacing(pixels, seg, erasing) == IF erasing THEN pixels \ seg ELSE seg
\* ctx.stroke() of the segment: destination-out removes, source-over paints
strokeOnto(pixels, seg, erasing) == IF erasing THEN pixels \ seg ELSE pixels \cup seg

draw(seg) ==
    LET m == RefTab(activeTab) IN
    /\ lastOp' = IF isDrawing[m] /\ CanvasMounted(m) THEN "draw" ELSE "draw:ignored"
    /\ UNCHANGED <<histVars, prompt, loadingMessage, error, hotspots, activeTab,
                   secondaryImage, cropVars, magicFillPrompt, maskFlags, inflight>>
    /\ UNCHANGED <<brushSize, calc>>
    /\ Render(IF isDrawing[m] /\ CanvasMounted(m)
              THEN [maskCanvas EXCEPT
                        ![m] = strokeOnto(@, seg \cap (1 .. canvasWidth[m]), isErasing[m])]
              ELSE maskCanvas)

\* imageData.data.some(channel => channel !== 0)
hasDrawing(pixels) == pixels # {}

stopDrawing ==
    LET m == RefTab(activeTab) IN
    /\ IF isDrawing[m] /\ CanvasMounted(m)
       THEN /\ isDrawing' = [isDrawing EXCEPT ![m] = FALSE]
            /\ isMaskDrawn' = [isMaskDrawn EXCEPT ![m] = hasDrawing(maskCanvas[m])]
            /\ lastOp' = "stopDrawing"
       ELSE /\ UNCHANGED <<isDrawing, isMaskDrawn>>
            /\ lastOp' = "stopDrawing:ignored"
    /\ UNCHANGED <<histVars, prompt, loadingMessage, error, hotspots, activeTab,
                   secondaryImage, cropVars, magicFillPrompt, isErasing, maskHistory,
                   canUndoMask, inflight>>
    /\ UNCHANGED <<brushSize, calc>>
    /\ Render(maskCanvas)

\* clearMask of a closure whose activeTab is tab: what it leaves in each
\* ref and flag; it does nothing when the canvas ref is null
clearActs(tab) == CanvasMounted(RefTab(tab))
clearedCanvas(tab) ==
    IF clearActs(tab) THEN [maskCanvas EXCEPT ![RefTab(tab)] = {}] ELSE maskCanvas
clearedDrawn(tab) ==
    IF clearActs(tab) THEN [isMaskDrawn EXCEPT ![RefTab(tab)] = FALSE] ELSE isMaskDrawn
clearedHistory(tab) ==
    IF clearActs(tab) THEN [maskHistory EXCEPT ![RefTab(tab)] = <<>>] ELSE maskHistory
\* clearMask without its setCanUndo(false)
clearedCanUndoKept(tab) == canUndoMask
clearedCanUndo(tab) ==
    IF clearActs(tab) THEN [canUndoMask EXCEPT ![RefTab(tab)] = FALSE] ELSE canUndoMask

clearMask ==
    /\ isMaskDrawn' = clearedDrawn(activeTab)
    /\ maskHistory' = clearedHistory(activeTab)
    /\ canUndoMask' = clearedCanUndo(activeTab)
    /\ lastOp' = IF clearActs(activeTab) THEN "clearMask" ELSE "clearMask:noop"
    /\ UNCHANGED <<histVars, prompt, loadingMessage, error, hotspots, activeTab,
                   secondaryImage, cropVars, magicFillPrompt, isErasing, isDrawing,
                   inflight>>
    /\ UNCHANGED <<brushSize, calc>>
    /\ Render(clearedCanvas(activeTab))

undoMaskStroke ==
    LET m == RefTab(activeTab)
        acts == Len(maskHistory[m]) > 0 /\ CanvasMounted(m)
        lastState == maskHistory[m][Len(maskHistory[m])]
    IN
    /\ IF acts
       THEN /\ maskHistory' = [maskHistory EXCEPT ![m] = SubSeq(@, 1, Len(@) - 1)]
            /\ canUndoMask' = [canUndoMask EXCEPT ![m] = Len(maskHistory[m]) - 1 > 0]
            /\ isMaskDrawn' = [isMaskDrawn EXCEPT ![m] = hasDrawing(lastState.data)]
            /\ lastOp' = "undoMaskStroke"
       ELSE /\ UNCHANGED <<maskHistory, canUndoMask, isMaskDrawn>>
            /\ lastOp' = "undoMaskStroke:noop"
    /\ UNCHANGED <<histVars, prompt, loadingMessage, error, hotspots, activeTab,
                   secondaryImage, cropVars, magicFillPrompt, isErasing, isDrawing,
                   inflight>>
    /\ UNCHANGED <<brushSize, calc>>
    /\ Render(IF acts
              THEN [maskCanvas EXCEPT ![m] = putImageData(canvasWidth[m], @, lastState)]
              ELSE maskCanvas)

\* window 'resize' with the image laid out w wide: resizeCanvases assigns
\* width and height of the mounted canvases, which clears them
resizeCanvases(w) ==
    /\ lastOp' = "resize"
    /\ imgWidth' = w
    /\ canvasWidth' = [m \in MaskTabs |->
                          IF CanvasMounted(m) /\ Editor THEN w ELSE canvasWidth[m]]
    /\ maskCanvas' = [m \in MaskTabs |->
                          IF CanvasMounted(m) /\ Editor THEN {} ELSE maskCanvas[m]]
    /\ UNCHANGED <<histVars, prompt, loadingMessage, error, hotspots, activeTab,
                   secondaryImage, cropVars, magicFillPrompt, maskFlags, inflight,
                   brushSize, calc>>

\* ------------------------------------------------- the external service
\* a data URL, by what dataURLtoFile looks at: the pieces split(',') gives,
\* whether the header matches /:(.*?);/, whether atob accepts the payload
DataURLs == {[parts |-> 2, mime |-> TRUE, b64 |-> TRUE],
             [parts |-> 1, mime |-> TRUE, b64 |-> TRUE],
             [parts |-> 2, mime |-> FALSE, b64 |-> TRUE],
             [parts |-> 2, mime |-> TRUE, b64 |-> FALSE]}

\* dataURLtoFile throws (otherwise it returns a new File)
dataURLtoFileThrows(url) == url.parts < 2 \/ ~url.mime \/ ~url.b64

\* what dataURLtoFile throws: an Error (atob throws a DOMException, an Error too)
dataURLError(url) ==
    [isError |-> TRUE,
     message |-> IF url.parts < 2 THEN <<"Invalid", "data", "URL">>
                 ELSE IF ~url.mime THEN <<"Could", "not", "parse", "MIME", "type">>
                 ELSE <<"InvalidCharacterError">>]

\* values a rejected call can carry; a message is its sequence of words
Rejections == {[isError |-> TRUE, message |-> <<"Request", "was", "BLOCKED">>],
               [isError |-> TRUE, message |-> <<"violates", "safety", "policy">>],
               [isError |-> TRUE, message |-> <<"model", "did", "not", "return", "an", "image">>],
               [isError |-> TRUE, message |-> <<"network", "down">>],
               [isError |-> FALSE, message |-> <<"blocked">>]}

\* how a call settles: it resolves with a data URL or rejects with a value
Outcomes == {[kind |-> "url", url |-> u, err |-> [isError |-> FALSE, message |-> <<>>]] : u \in DataURLs}
            \cup {[kind |-> "reject", url |-> [parts |-> 0, mime |-> FALSE, b64 |-> FALSE], err |-> e] :
                      e \in {r \in Rejections : r.isError /\ Len(r.message) <= 3 /\ r.message[1] # "violates"}}

\* String.prototype.toLowerCase, word by word
lowerWord(w) == CASE w = "BLOCKED" -> "blocked"
                  [] w = "Request" -> "request"
                  [] w = "Invalid" -> "invalid"
                  [] w = "URL" -> "url"
                  [] w = "Could" -> "could"
                  [] w = "MIME" -> "mime"
                  [] w = "InvalidCharacterError" -> "invalidcharactererror"
                  [] OTHER -> w
toLowerCase(msg) == [k \in 1 .. Len(msg) |-> lowerWord(msg[k])]

\* String.prototype.includes
includes(msg, pat) ==
    \E k \in 0 .. Len(msg) - Len(pat) : \A j \in 1 .. Len(pat) : msg[k + j] = pat[j]

\* formatErrorMessage looking for 'did not return an image' first
formatErrorMessageNoResultFirst(err, context) ==
    IF err.isError
    THEN IF includes(toLowerCase(err.message), <<"did", "not", "return", "an", "image">>)
         THEN "noresult:" \o context
         ELSE IF includes(toLowerCase(err.message), <<"blocked">>)
                 \/ includes(toLowerCase(err.message), <<"safety">>)
              THEN "blocked:" \o context
              ELSE "failed:" \o context
    ELSE "unexpected:" \o context

formatErrorMessage(err, context) ==
    IF err.isError
    THEN IF includes(toLowerCase(err.message), <<"blocked">>)
            \/ includes(toLowerCase(err.message), <<"safety">>)
         THEN "blocked:" \o context
         ELSE IF includes(toLowerCase(err.message), <<"did", "not", "return", "an", "image">>)
              THEN "noresult:" \o context
              ELSE "failed:" \o context
    ELSE "unexpected:" \o context

\* ---------------------------------------------------- the edit handlers
\* an early return after setError
Fail(msg, op) ==
    /\ error' = msg
    /\ lastOp' = op
    /\ UNCHANGED <<loadingMessage, inflight>>

\* an early return that sets nothing
Silent(op) ==
    /\ lastOp' = op
    /\ UNCHANGED <<error, loadingMessage, inflight>>

\* the call issued without setLoadingMessage
IssueWithoutLoading(handler, service, second, text, masked, mask) ==
    /\ Len(inflight) < MaxInflight
    /\ historyIndex + 2 <= MaxHistory
    /\ UNCHANGED loadingMessage
    /\ error' = NoMsg
    /\ inflight' = Append(inflight,
           [handler |-> handler, service |-> service, image |-> currentImage,
            second |-> second, text |-> text, masked |-> masked, mask |-> mask,
            h |-> history, i |-> historyIndex, tab |-> activeTab])
    /\ lastOp' = "issue:" \o handler

\* setLoadingMessage(...); setError(null); then the awaited service call.
\* The record keeps the arguments of the call (the current image, the second
\* image or NoFile, the instruction text or "", the mask) and what the rest
\* of the handler will use when the call settles: the history and historyIndex captured by addImageToHistory and
\* the activeTab captured by clearMask.
Issue(handler, service, second, text, masked, mask) ==
    /\ Len(inflight) < MaxInflight
    /\ historyIndex + 2 <= MaxHistory
    /\ loadingMessage' = "loading:" \o handler
    /\ error' = NoMsg
    /\ inflight' = Append(inflight,
           [handler |-> handler, service |-> service, image |-> currentImage,
            second |-> second, text |-> text, masked |-> masked, mask |-> mask,
            h |-> history, i |-> historyIndex, tab |-> activeTab])
    /\ lastOp' = "issue:" \o handler

restOfHandler ==
    /\ UNCHANGED <<histVars, prompt, hotspots, activeTab, secondaryImage, cropVars,
                   magicFillPrompt, maskFlags>>
    /\ UNCHANGED <<brushSize, calc>>
    /\ Render(maskCanvas)

\* handleGenerate testing !prompt instead of !prompt.trim()
handleGenerateNoTrim ==
    /\ IF currentImage = NoFile THEN Fail("err:no-image", "generate:invalid")
       ELSE IF prompt = "" THEN Fail("err:no-prompt", "generate:invalid")
       ELSE IF editHotspot = NoPoint THEN Fail("err:no-hotspot", "generate:invalid")
       ELSE Issue("retouch", "generateEditedImage", NoFile, prompt, FALSE, {})
    /\ restOfHandler

handleGenerate ==
    /\ IF currentImage = NoFile THEN Fail("err:no-image", "generate:invalid")
       ELSE IF trim(prompt) = "" THEN Fail("err:no-prompt", "generate:invalid")
       ELSE IF editHotspot = NoPoint THEN Fail("err:no-hotspot", "generate:invalid")
       ELSE Issue("retouch", "generateEditedImage", NoFile, prompt, FALSE, {})
    /\ restOfHandler

handleApplyFilter(filterPrompt) ==
    /\ IF currentImage = NoFile THEN Fail("err:no-image", "filter:invalid")
       ELSE Issue("filters", "generateFilteredImage", NoFile, filterPrompt, FALSE, {})
    /\ restOfHandler

\* handleApplyAdjustment refusing to run without a second image, as
\* handleApplyFaceSwap does
handleApplyAdjustmentNeedingSecond(adjustmentPrompt) ==
    /\ IF currentImage = NoFile \/ secondaryImage = NoFile
       THEN Fail("err:no-image", "adjust:invalid")
       ELSE Issue("adjust", "generateAdjustedImage", secondaryImage, adjustmentPrompt,
                  FALSE, {})
    /\ restOfHandler

handleApplyAdjustment(adjustmentPrompt) ==
    /\ IF currentImage = NoFile THEN Fail("err:no-image", "adjust:invalid")
       ELSE Issue("adjust", "generateAdjustedImage", secondaryImage, adjustmentPrompt, FALSE, {})
    /\ restOfHandler

handleApplyFaceSwap ==
    /\ IF currentImage = NoFile \/ secondaryImage = NoFile
       THEN Fail("err:need-both-faceswap", "faceswap:invalid")
       ELSE Issue("faceswap", "generateFaceSwapImage", secondaryImage, "", FALSE, {})
    /\ restOfHandler

\* handleApplyCombine testing !combinePrompt instead of !combinePrompt.trim()
handleApplyCombineNoTrim(combinePrompt) ==
    /\ IF currentImage = NoFile \/ secondaryImage = NoFile
       THEN Fail("err:need-both-combine", "combine:invalid")
       ELSE IF combinePrompt = "" THEN Fail("err:no-combine-prompt", "combine:invalid")
       ELSE Issue("combine", "generateCombinedImage", secondaryImage, combinePrompt, FALSE, {})
    /\ restOfHandler

handleApplyCombine(combinePrompt) ==
    /\ IF currentImage = NoFile \/ secondaryImage = NoFile
       THEN Fail("err:need-both-combine", "combine:invalid")
       ELSE IF trim(combinePrompt) = "" THEN Fail("err:no-combine-prompt", "combine:invalid")
       ELSE Issue("combine", "generateCombinedImage", secondaryImage, combinePrompt, FALSE, {})
    /\ restOfHandler

\* handleApplyMagicFill without !isMagicFillMaskDrawn in its first test
handleApplyMagicFillUnchecked(ctxOk, tempCtxOk) ==
    /\ IF currentImage = NoFile \/ ~CanvasMounted("magicfill")
       THEN Fail("err:paint-first", "magicfill:invalid")
       ELSE IF ~Editor THEN Silent("magicfill:return")
       ELSE IF ~ctxOk THEN Fail("err:mask-ctx", "magicfill:invalid")
       ELSE IF ~tempCtxOk THEN Silent("magicfill:return")
       ELSE Issue("magicfill", "generateMagicFillImage", NoFile, magicFillPrompt, TRUE,
                  maskCanvas["magicfill"])
    /\ restOfHandler

\* ctxOk, tempCtxOk: getContext('2d') gave a context
handleApplyMagicFill(ctxOk, tempCtxOk) ==
    /\ IF currentImage = NoFile \/ ~CanvasMounted("magicfill") \/ ~isMaskDrawn["magicfill"]
       THEN Fail("err:paint-first", "magicfill:invalid")
       ELSE IF ~Editor THEN Silent("magicfill:return")
       ELSE IF ~ctxOk THEN Fail("err:mask-ctx", "magicfill:invalid")
       ELSE IF ~tempCtxOk THEN Silent("magicfill:return")
       ELSE Issue("magicfill", "generateMagicFillImage", NoFile, magicFillPrompt, TRUE,
                  maskCanvas["magicfill"])
    /\ restOfHandler

\* the throw of a missing context lands in the handler's own catch and
\* finally before anything is awaited
handleApplyFreestyle(freestylePrompt, ctxOk) ==
    /\ IF currentImage = NoFile THEN Fail("err:no-image", "freestyle:invalid")
       ELSE IF isMaskDrawn["freestyle"] /\ CanvasMounted("freestyle") /\ Editor
            THEN IF ~ctxOk
                 THEN /\ error' = formatErrorMessage(
                              [isError |-> TRUE, message |-> <<"Could", "not", "create", "mask", "context">>],
                              "freestyle")
                      /\ loadingMessage' = NoMsg
                      /\ lastOp' = "freestyle:throw"
                      /\ UNCHANGED inflight
                 ELSE Issue("freestyle", "generateMagicFillImage", NoFile, freestylePrompt, TRUE,
                            maskCanvas["freestyle"])
            ELSE Issue("freestyle", "generateAdjustedImage", NoFile, freestylePrompt, FALSE, {})
    /\ restOfHandler

\* canvas.toDataURL of the crop canvas: "data:," when the canvas has no area
cropDataURL(w) == [parts |-> 2, mime |-> w > 0, b64 |-> TRUE]

\* handleApplyCrop has no try: a throw of dataURLtoFile leaves the handler
handleApplyCrop(ctxOk) ==
    /\ IF completedCrop = NoCrop \/ ~Editor
       THEN /\ Fail("err:no-crop", "crop:invalid")
            /\ UNCHANGED <<histVars, cropVars, secondaryImage>>
       ELSE IF ~ctxOk
       THEN /\ Fail("err:crop-ctx", "crop:invalid")
            /\ UNCHANGED <<histVars, cropVars, secondaryImage>>
       ELSE IF dataURLtoFileThrows(cropDataURL(completedCrop))
       THEN /\ Silent("crop:throw")
            /\ UNCHANGED <<histVars, cropVars, secondaryImage>>
       ELSE /\ Len(newHistory(history, historyIndex, NewFile)) <= MaxHistory
            /\ addImageToHistory(history, historyIndex, NewFile)
            /\ lastOp' = "append:crop"
            /\ UNCHANGED <<error, loadingMessage, inflight>>
    /\ UNCHANGED <<prompt, hotspots, activeTab, magicFillPrompt, maskFlags>>
    /\ UNCHANGED <<brushSize, calc>>
    /\ Render(maskCanvas)

RemoveAt(s, k) == SubSeq(s, 1, k - 1) \o SubSeq(s, k + 1, Len(s))

\* the hotspot reset moved from the try to the finally of handleGenerate
clearsHotspotInFinally(handler, ok) == handler = "retouch"
\* setEditHotspot(null); setDisplayHotspot(null): the last statements of the
\* try of handleGenerate, and of no other handler
clearsHotspot(handler, ok) == ok /\ handler = "retouch"

\* the rest of an async handler with addImageToHistory ahead of the decode:
\* a result that cannot be decoded is appended before the catch runs
SettleAppendingFirst(k, out) ==
    LET c == inflight[k]
        ok == out.kind = "url" /\ ~dataURLtoFileThrows(out.url)
        thrown == IF out.kind = "url" THEN dataURLError(out.url) ELSE out.err
        clears == ok /\ c.handler \in {"magicfill", "freestyle"}
    IN
    /\ inflight' = RemoveAt(inflight, k)
    /\ loadingMessage' = NoMsg
    /\ IF out.kind = "url"
       THEN /\ addImageToHistory(c.h, c.i, NewFile)
            /\ error' = IF ok THEN error ELSE formatErrorMessage(thrown, c.handler)
            /\ lastOp' = IF ok THEN "append:" \o c.handler ELSE "failed:" \o c.handler
       ELSE /\ error' = formatErrorMessage(thrown, c.handler)
            /\ UNCHANGED <<histVars, cropVars, secondaryImage>>
            /\ lastOp' = "failed:" \o c.handler
    /\ editHotspot' = IF ok /\ c.handler = "retouch" THEN NoPoint ELSE editHotspot
    /\ displayHotspot' = IF ok /\ c.handler = "retouch" THEN NoPoint ELSE displayHotspot
    /\ magicFillPrompt' = IF ok /\ c.handler = "magicfill" THEN "" ELSE magicFillPrompt
    /\ isMaskDrawn' = IF clears THEN clearedDrawn(c.tab) ELSE isMaskDrawn
    /\ maskHistory' = IF clears THEN clearedHistory(c.tab) ELSE maskHistory
    /\ canUndoMask' = IF clears THEN clearedCanUndo(c.tab) ELSE canUndoMask
    /\ UNCHANGED <<prompt, activeTab, isErasing, isDrawing>>
    /\ UNCHANGED <<brushSize, calc>>
    /\ Render(IF clears THEN clearedCanvas(c.tab) ELSE maskCanvas)

\* The rest of an async handler, run when its call settles: try (decode,
\* addImageToHistory, the handler's own clean-up), catch (setError), finally
\* (setLoadingMessage(null)).
Settle(k, out) ==
    LET c == inflight[k]
        ok == out.kind = "url" /\ ~dataURLtoFileThrows(out.url)
        thrown == IF out.kind = "url" THEN dataURLError(out.url) ELSE out.err
        clears == ok /\ c.handler \in {"magicfill", "freestyle"}
    IN
    /\ inflight' = RemoveAt(inflight, k)
    /\ loadingMessage' = NoMsg
    /\ IF ok
       THEN /\ addImageToHistory(c.h, c.i, NewFile)
            /\ UNCHANGED error
            /\ lastOp' = "append:" \o c.handler
       ELSE /\ error' = formatErrorMessage(thrown, c.handler)
            /\ UNCHANGED <<histVars, cropVars, secondaryImage>>
            /\ lastOp' = "failed:" \o c.handler
    /\ editHotspot' = IF clearsHotspot(c.handler, ok) THEN NoPoint ELSE editHotspot
    /\ displayHotspot' = IF clearsHotspot(c.handler, ok) THEN NoPoint ELSE displayHotspot
    /\ magicFillPrompt' = IF ok /\ c.handler = "magicfill" THEN "" ELSE magicFillPrompt
    /\ isMaskDrawn' = IF clears THEN clearedDrawn(c.tab) ELSE isMaskDrawn
    /\ maskHistory' = IF clears THEN clearedHistory(c.tab) ELSE maskHistory
    /\ canUndoMask' = IF clears THEN clearedCanUndo(c.tab) ELSE canUndoMask
    /\ UNCHANGED <<prompt, activeTab, isErasing, isDrawing>>
    /\ UNCHANGED <<brushSize, calc>>
    /\ Render(IF clears THEN clearedCanvas(c.tab) ELSE maskCanvas)

\* ------------------------------------------- the controls that are rendered
\* Each event is a handler behind the condition under which its control is
\* in the DOM and enabled.  The loading overlay covers the image area; a
\* pointer that is drawing a stroke is not free to press something else.

\* StartScreen onFileSelect
StartScreenUpload == StartScreen /\ handleImageUpload

TabButton(tab) == Editor /\ NoStroke /\ tab # activeTab /\ setActiveTab(tab)

UndoButton == Editor /\ NoStroke /\ canUndo /\ handleUndo
RedoButton == Editor /\ NoStroke /\ canRedo /\ handleRedo
ResetButton == Editor /\ NoStroke /\ canUndo /\ handleReset
UploadNewButton == Editor /\ NoStroke /\ handleUploadNew

ErrorDismiss == ErrorPanel /\ dismissError

ImageClick(off) ==
    /\ Editor /\ NoStroke /\ ~isLoading
    /\ activeTab \notin {"crop", "magicfill", "freestyle"}
    /\ OnlyTool("point")
    /\ handleImageClick(off)

RetouchPromptInput(p) ==
    /\ Editor /\ NoStroke /\ activeTab = "retouch"
    /\ ~(isLoading \/ editHotspot = NoPoint)
    /\ p # prompt
    /\ setPrompt(p)

RetouchSubmit ==
    /\ Editor /\ NoStroke /\ activeTab = "retouch"
    /\ ~(isLoading \/ trim(prompt) = "" \/ editHotspot = NoPoint)
    /\ handleGenerate

MagicFillPromptInput(p) ==
    /\ Editor /\ NoStroke /\ activeTab = "magicfill"
    /\ ~(isLoading \/ ~isMaskDrawn["magicfill"])
    /\ p # magicFillPrompt
    /\ setMagicFillPrompt(p)

MagicFillSubmit(ctxOk, tempCtxOk) ==
    /\ Editor /\ NoStroke /\ activeTab = "magicfill"
    /\ ~(isLoading \/ trim(magicFillPrompt) = "" \/ ~isMaskDrawn["magicfill"])
    /\ handleApplyMagicFill(ctxOk, tempCtxOk)

\* FreestylePanel.handleApply behind its submit button
FreestyleSubmit(p, ctxOk) ==
    /\ Editor /\ NoStroke /\ activeTab = "freestyle"
    /\ ~(isLoading \/ trim(p) = "")
    /\ trim(p) # ""
    /\ handleApplyFreestyle(p, ctxOk)

\* the filter button without disabled={isLoading}
FilterApplyWhileLoading(p) ==
    /\ Editor /\ NoStroke /\ activeTab = "filters"
    /\ p # ""
    /\ trim(p) # ""
    /\ handleApplyFilter(p)

\* FilterPanel.handleApply behind its button
FilterApply(p) ==
    /\ Editor /\ NoStroke /\ activeTab = "filters"
    /\ p # ""
    /\ ~(isLoading \/ trim(p) = "")
    /\ handleApplyFilter(p)

\* CombinePanel.handleApply behind its button
CombineApply(p) ==
    /\ Editor /\ NoStroke /\ activeTab = "combine"
    /\ ~(isLoading \/ secondaryImage = NoFile \/ trim(p) = "")
    /\ handleApplyCombine(p)

\* the face-swap button
FaceSwapApply ==
    /\ Editor /\ NoStroke /\ activeTab = "faceswap"
    /\ ~(isLoading \/ currentImage = NoFile \/ secondaryImage = NoFile)
    /\ handleApplyFaceSwap

\* AdjustmentPanel's apply control, which receives isLoading
AdjustApply(p) ==
    /\ Editor /\ NoStroke /\ activeTab = "adjust"
    /\ ~(isLoading \/ trim(p) = "")
    /\ handleApplyAdjustment(p)

\* CropPanel's apply control, which receives isLoading and isCropping
CropApply(ctxOk) ==
    /\ Editor /\ NoStroke /\ activeTab = "crop"
    /\ ~(isLoading \/ ~(completedCrop > 0))
    /\ handleApplyCrop(ctxOk)

\* the second-image file input of the combine, face-swap and adjust panels
SecondaryUpload ==
    /\ OnlyTool("attach")
    /\ Editor /\ NoStroke /\ activeTab \in {"combine", "faceswap", "adjust"}
    /\ ~isLoading /\ secondaryImage = NoFile
    /\ handleSecondaryImageUpload

SecondaryClear ==
    /\ Editor /\ NoStroke /\ activeTab \in {"combine", "faceswap", "adjust"}
    /\ ~isLoading /\ secondaryImage # NoFile
    /\ handleClearSecondaryImage

\* a selection gesture on ReactCrop: onChange while dragging, onComplete at
\* its end, both with the selection drawn
CropSelect(w) ==
    /\ Editor /\ NoStroke /\ activeTab = "crop" /\ ~isLoading
    /\ OnlyTool("attach")
    /\ w # completedCrop
    /\ onCropSelect(w)

EraseToggle(b) ==
    /\ activeTab \in MaskTabs /\ OnlyTool(activeTab)
    /\ Editor /\ NoStroke /\ activeTab \in MaskTabs /\ ~isLoading
    /\ b # isErasing[activeTab]
    /\ setIsErasing(b)

MaskUndoButton ==
    /\ Editor /\ NoStroke /\ activeTab \in MaskTabs
    /\ ~(isLoading \/ ~canUndoMask[activeTab])
    /\ undoMaskStroke

MaskClearButton ==
    /\ Editor /\ NoStroke /\ activeTab \in MaskTabs
    /\ ~(isLoading \/ ~isMaskDrawn[activeTab])
    /\ clearMask

\* onMouseDown / onTouchStart, onMouseMove / onTouchMove, onMouseUp /
\* onMouseLeave / onTouchEnd of the mounted canvas
CanvasPointerDown ==
    /\ activeTab \in MaskTabs /\ CanvasMounted(activeTab) /\ NoStroke
    /\ OnlyTool(activeTab)
    /\ Len(maskHistory[activeTab]) < MaxStrokes
    /\ startDrawing
CanvasPointerMove(seg) == activeTab \in MaskTabs /\ CanvasMounted(activeTab) /\ draw(seg)
CanvasPointerUp ==
    /\ activeTab \in MaskTabs /\ CanvasMounted(activeTab) /\ isDrawing[activeTab]
    /\ stopDrawing

WindowResize(w) ==
    /\ (\E m \in MaskTabs : CanvasMounted(m) /\ maskCanvas[m] # {}) \/ w # imgWidth
    /\ resizeCanvases(w)

CallSettles(k, out) == k \in 1 .. Len(inflight) /\ Settle(k, out)

Next ==
    \/ StartScreenUpload
    \/ \E tab \in Tabs : TabButton(tab)
    \/ UndoButton
    \/ RedoButton
    \/ ResetButton
    \/ UploadNewButton
    \/ ErrorDismiss
    \/ \E off \in ClickOffsets : ImageClick(off)
    \/ \E p \in TypedPrompts : RetouchPromptInput(p)
    \/ RetouchSubmit
    \/ \E p \in TypedPrompts : MagicFillPromptInput(p)
    \/ \E ctxOk, tempCtxOk \in BOOLEAN : MagicFillSubmit(ctxOk, tempCtxOk)
    \/ \E p \in Prompts, ctxOk \in BOOLEAN : FreestyleSubmit(p, ctxOk)
    \/ \E p \in Prompts : FilterApply(p)
    \/ \E p \in Prompts : CombineApply(p)
    \/ FaceSwapApply
    \/ \E p \in Prompts : AdjustApply(p)
    \/ \E ctxOk \in BOOLEAN : CropApply(ctxOk)
    \/ SecondaryUpload
    \/ SecondaryClear
    \/ \E w \in CropWidths : CropSelect(w)
    \/ \E b \in BOOLEAN : EraseToggle(b)
    \/ MaskUndoButton
    \/ MaskClearButton
    \/ CanvasPointerDown
    \/ \E seg \in SUBSET Pixels : CanvasPointerMove(seg)
    \/ CanvasPointerUp
    \/ \E w \in Pixels : WindowResize(w)
    \/ \E k \in 1 .. MaxInflight, out \in Outcomes : CallSettles(k, out)

Spec == Init /\ [][Next]_vars

\* ------------------------------------------------ the handlers called directly
\* The synchronous handlers of the snapshot history, each callable in every
\* state, whatever the state of the control that is bound to it.
NextH ==
    \/ handleImageUpload
    \/ handleUndo
    \/ handleRedo
    \/ handleReset
    \/ handleUploadNew
    \/ \E w \in CropWidths : onCropSelect(w)
    \/ \E ctxOk \in BOOLEAN : handleApplyCrop(ctxOk)
    \/ handleSecondaryImageUpload
    \/ dismissError

SpecH == Init /\ [][NextH]_vars

\* ------------------------------------ the handlers called from their panels
\* The edit handlers invoked while their panel is displayed and no call is
\* outstanding, whatever the disabled attribute of the control says about
\* the inputs (hotspot, text, paint, second image, selection): the checks a
\* handler makes itself are then what decides.
FreestylePanelIgnores ==
    /\ lastOp' = "freestyle:ignored"
    /\ UNCHANGED <<histVars, prompt, loadingMessage, error, hotspots, activeTab,
                   secondaryImage, cropVars, magicFillPrompt, maskFlags, inflight>>
    /\ UNCHANGED <<brushSize, calc>>
    /\ Render(maskCanvas)

\* FreestylePanel.handleApply: if (prompt.trim()) onApplyFreestyle(prompt)
FreestylePanelHandleApply(p, ctxOk) ==
    IF trim(p) # "" THEN handleApplyFreestyle(p, ctxOk) ELSE FreestylePanelIgnores

PanelShown(tab) == Editor /\ NoStroke /\ ~isLoading /\ activeTab = tab

GenerateCalled == PanelShown("retouch") /\ handleGenerate
MagicFillCalled(ctxOk, tempCtxOk) ==
    PanelShown("magicfill") /\ handleApplyMagicFill(ctxOk, tempCtxOk)
FreestyleFormSubmitted(p, ctxOk) ==
    PanelShown("freestyle") /\ FreestylePanelHandleApply(p, ctxOk)
FreestyleCalled(p, ctxOk) == PanelShown("freestyle") /\ handleApplyFreestyle(p, ctxOk)
CombineCalled(p) == PanelShown("combine") /\ handleApplyCombine(p)
FaceSwapCalled == PanelShown("faceswap") /\ handleApplyFaceSwap
AdjustCalled(p) == PanelShown("adjust") /\ handleApplyAdjustment(p)
CropCalled(ctxOk) == PanelShown("crop") /\ handleApplyCrop(ctxOk)

NextV ==
    \/ Next
    \/ \E p \in Prompts \ TypedPrompts : RetouchPromptInput(p)
    \/ GenerateCalled
    \/ \E ctxOk, tempCtxOk \in BOOLEAN : MagicFillCalled(ctxOk, tempCtxOk)
    \/ \E p \in Prompts, ctxOk \in BOOLEAN : FreestyleFormSubmitted(p, ctxOk)
    \/ \E p \in Prompts, ctxOk \in BOOLEAN : FreestyleCalled(p, ctxOk)
    \/ \E p \in Prompts : CombineCalled(p)
    \/ FaceSwapCalled
    \/ \E p \in Prompts : AdjustCalled(p)
    \/ \E ctxOk \in BOOLEAN : CropCalled(ctxOk)

SpecV == Init /\ [][NextV]_vars

\* ------------------------------------------------- the mask surfaces alone
\* The two mask surfaces with no external call: the image is uploaded, the
\* user moves between the retouch tab and the two mask tabs, paints, erases,
\* undoes and clears, one mask at a time, on canvases up to MaskPixels wide
\* with up to MaskStrokes strokes kept, resizes the window, and submits the
\* magic-fill form when no drawing context can be had, which ends in the
\* error panel.
MaskPointerDown ==
    /\ activeTab \in MaskTabs /\ CanvasMounted(activeTab) /\ NoStroke
    /\ OnlyTool(activeTab)
    /\ Len(maskHistory[activeTab]) < MaskStrokes
    /\ startDrawing

MaskEraseToggle(b) ==
    /\ Editor /\ NoStroke /\ activeTab \in MaskTabs /\ ~isLoading
    /\ OnlyTool(activeTab)
    /\ b # isErasing[activeTab]
    /\ setIsErasing(b)

\* onUndo and onClear of the displayed mask panel, whatever the disabled
\* attribute of the two buttons says
MaskUndoCalled == activeTab \in MaskTabs /\ PanelShown(activeTab) /\ undoMaskStroke
MaskClearCalled == activeTab \in MaskTabs /\ PanelShown(activeTab) /\ clearMask

NextM ==
    \/ StartScreenUpload
    \/ \E tab \in MaskTabs \cup {"retouch"} : TabButton(tab)
    \/ \E b \in BOOLEAN : MaskEraseToggle(b)
    \/ MaskUndoCalled
    \/ MaskClearCalled
    \/ MaskPointerDown
    \/ \E seg \in SUBSET (1 .. MaskPixels) : CanvasPointerMove(seg)
    \/ CanvasPointerUp
    \/ \E w \in 1 .. MaskPixels : WindowResize(w)
    \/ MagicFillCalled(FALSE, FALSE)
    \/ ErrorDismiss

SpecM == Init /\ [][NextM]_vars

\* The mask surfaces as in SpecM, with the magic-fill form also submitted
\* when the drawing contexts can be had, so that calls are issued and settle.
NextS ==
    \/ NextM
    \/ \E ctxOk, tempCtxOk \in BOOLEAN : MagicFillCalled(ctxOk, tempCtxOk)
    \/ \E k \in 1 .. MaxInflight, out \in Outcomes : CallSettles(k, out)

SpecS == Init /\ [][NextS]_vars

\* The two mask surfaces in use together: with an image uploaded the user
\* goes back and forth between the Magic Fill and the Freestyle tab and, in
\* each, picks a brush size, toggles the eraser, paints, undoes and clears,
\* whatever state the mask of the other tab is in.
BothPointerDown ==
    /\ activeTab \in MaskTabs /\ CanvasMounted(activeTab) /\ NoStroke
    /\ Len(maskHistory[activeTab]) < MaxStrokes
    /\ startDrawing

BothEraseToggle(b) ==
    /\ Editor /\ NoStroke /\ activeTab \in MaskTabs /\ ~isLoading
    /\ b # isErasing[activeTab]
    /\ setIsErasing(b)

BrushSizeButton(size) ==
    /\ Editor /\ NoStroke /\ activeTab \in MaskTabs /\ ~isLoading
    /\ size # brushSize[activeTab]
    /\ setBrushSize(activeTab, size)

NextB ==
    \/ StartScreenUpload
    \/ \E tab \in MaskTabs : TabButton(tab)
    \/ \E size \in BrushSizes : BrushSizeButton(size)
    \/ \E b \in BOOLEAN : BothEraseToggle(b)
    \/ MaskUndoCalled
    \/ MaskClearCalled
    \/ BothPointerDown
    \/ \E seg \in SUBSET Pixels : CanvasPointerMove(seg)
    \/ CanvasPointerUp

SpecB == Init /\ [][NextB]_vars

\* =================================================================== claims
\* lastOp of a step in which a handler appended to the history
AsyncAppendOps == {"append:retouch", "append:filters", "append:adjust", "append:faceswap",
                   "append:combine", "append:magicfill", "append:freestyle"}
AppendOps == AsyncAppendOps \cup {"append:crop"}

\* C1: in every reachable state historyIndex is -1 exactly when the history
\* is empty and otherwise lies in 0 .. length(history)-1, whatever sequence
\* of upload, append, undo, redo, reset and upload-new led there, appends
\* that complete after other operations included.
C1_CursorInRange ==
    /\ (history = <<>>) <=> (historyIndex = 0 - 1)
    /\ history # <<>> => (0 <= historyIndex /\ historyIndex <= Len(history) - 1)

\* an append has completed on a tab other than the one that issued it
C1_Witness ==
    /\ lastOp = "append:filters"
    /\ activeTab # "filters"
    /\ Len(history) = 2
    /\ historyIndex = 1

\* C2 (as stated): once the history is non-empty, only handleImageUpload and
\* handleUploadNew empty it or change its first entry.
C2_OriginalChangesOnlyByUpload ==
    [][(history # <<>> /\ (history' = <<>> \/ history'[1] # history[1]))
          => lastOp' \in {"upload", "uploadNew"}]_vars

\* the step of addImageToHistory that produced history' and historyIndex'
\* from the history h and the cursor c it read
AppendedTo(h, c) ==
    /\ Len(history') = c + 2
    /\ \A j \in 1 .. c + 1 : history'[j] = h[j]
    /\ history'[c + 2] \notin Range(h)
    /\ historyIndex' = c + 1

stateVars == <<history, historyIndex, prompt, loadingMessage, error,
               editHotspot, displayHotspot, activeTab, secondaryImage,
               crop, completedCrop, magicFillPrompt,
               isErasing, isMaskDrawn, maskCanvas, isDrawing, maskHistory, canUndoMask,
               inflight>>

\* C4: undo changes no state variable when the cursor is <= 0 and otherwise
\* decrements it by exactly 1; redo changes none when the cursor is >=
\* length-1 and otherwise increments it by exactly 1; neither changes the
\* history.
C4_UndoRedo ==
    [][/\ lastOp' \in {"undo", "undo:noop"} =>
              /\ history' = history
              /\ IF historyIndex <= 0
                 THEN UNCHANGED stateVars
                 ELSE historyIndex' = historyIndex - 1
       /\ lastOp' \in {"redo", "redo:noop"} =>
              /\ history' = history
              /\ IF historyIndex >= Len(history) - 1
                 THEN UNCHANGED stateVars
                 ELSE historyIndex' = historyIndex + 1]_vars

\* handleUndo has run at the first of two snapshots
C4_Witness ==
    /\ lastOp = "undo:noop"
    /\ historyIndex = 0
    /\ Len(history) = 2

\* C5: reset changes nothing when the history is empty and otherwise sets
\* the cursor to 0 and leaves the history as it was, so that the snapshots
\* after the first are still there for redo.
C5_Reset ==
    [][lastOp' \in {"reset", "reset:noop"} =>
           /\ history' = history
           /\ IF history = <<>>
              THEN UNCHANGED stateVars
              ELSE historyIndex' = 0 /\ (Len(history) > 1 => canRedo')]_vars

\* handleReset has run at the second of two snapshots
C5_Witness ==
    /\ lastOp = "reset"
    /\ Len(history) = 2
    /\ historyIndex = 0

\* C6: every append, from any mode and from crop, leaves in the same step
\* the pending crop rectangle (crop, completedCrop) cleared and the second
\* image null.
C6_AppendClearsCropAndSecond ==
    lastOp \in AppendOps =>
        crop = NoCrop /\ completedCrop = NoCrop /\ secondaryImage = NoFile

\* a combine, which needs a second image to be issued, has appended
C6_Witness ==
    /\ lastOp = "append:combine"
    /\ secondaryImage = NoFile
    /\ Len(history) = 2

\* C7: at most one external call is outstanding in every reachable state,
\* and no step issues a call while loadingMessage is set, whichever tab is
\* active.
C7_SingleFlight ==
    /\ [](Len(inflight) <= 1)
    /\ [][isLoading => Len(inflight') <= Len(inflight)]_vars

\* a call is outstanding while the combine tab, with its second image
\* attached and nothing else missing for a submit, is the active one
C7_Witness ==
    /\ Len(inflight) = 1
    /\ isLoading
    /\ Editor
    /\ activeTab = "combine"
    /\ inflight[1].tab # "combine"
    /\ secondaryImage # NoFile

\* C8 (as stated): while an external call is outstanding activeTab does not
\* change.
C8_TabFixedWhileInFlight ==
    [][inflight # <<>> => activeTab' = activeTab]_vars

\* C9 (as stated): between the issue of an external call and its completion
\* no other operation changes history or historyIndex.
C9_HistoryFixedWhileInFlight ==
    [][(inflight # <<>> /\ inflight' = inflight) => UNCHANGED histVars]_vars

\* C10: a step that issues an external call leaves the loading indicator
\* set; the step in which a call settles, whatever its outcome, leaves it
\* cleared; and no other step clears it while a call is outstanding.
C10_LoadingFollowsCall ==
    /\ [](inflight # <<>> => isLoading)
    /\ [][/\ Len(inflight') > Len(inflight) => loadingMessage' # NoMsg
          /\ Len(inflight') < Len(inflight) => loadingMessage' = NoMsg
          /\ (isLoading /\ inflight # <<>> /\ loadingMessage' = NoMsg)
                 => Len(inflight') < Len(inflight)]_vars

\* a magic fill call has failed and the indicator is off
C10_Witness ==
    /\ lastOp = "failed:magicfill"
    /\ error = "failed:magicfill"
    /\ loadingMessage = NoMsg
    /\ inflight = <<>>

\* lastOp of a step in which an external call failed
FailedOps == {"failed:retouch", "failed:filters", "failed:adjust", "failed:faceswap",
              "failed:combine", "failed:magicfill", "failed:freestyle"}

\* C11: when an external call fails (a rejection or a result that cannot be
\* decoded) no snapshot is appended, history and historyIndex are what they
\* were just before the failure was handled and the error is set; dismissing
\* the error sets it to none and changes nothing else.
C11_AllOrNothing ==
    [][/\ lastOp' \in FailedOps =>
              /\ Len(inflight') < Len(inflight)
              /\ UNCHANGED histVars
              /\ error' # NoMsg
       /\ lastOp' = "dismissError" =>
              /\ error' = NoMsg
              /\ UNCHANGED <<histVars, prompt, loadingMessage, hotspots, activeTab,
                             secondaryImage, cropVars, magicFillPrompt, maskFlags,
                             maskCanvas, inflight>>]_vars

\* the error of a failed filter call has been dismissed on the tab that
\* issued it, and the one snapshot is still the current one
C11_Witness ==
    /\ lastOp = "dismissError"
    /\ error = NoMsg
    /\ activeTab = "filters"
    /\ Len(history) = 1
    /\ historyIndex = 0

\* the call a step has just issued
issued == inflight'[Len(inflight')]

\* every variable but error and the record of the last handler
allButError == <<history, historyIndex, prompt, loadingMessage,
                 editHotspot, displayHotspot, activeTab, secondaryImage,
                 crop, completedCrop, magicFillPrompt,
                 isErasing, isMaskDrawn, maskCanvas, isDrawing, maskHistory, canUndoMask,
                 inflight>>

\* C12: handleGenerate with no hotspot selected, or with empty or
\* whitespace-only instruction text, issues no external call, sets the error,
\* does not set the loading indicator and changes no other state; it issues
\* a call only with a hotspot and a text that is non-empty after trimming.
C12_PointEditValidation ==
    [][/\ (lastOp' \in {"generate:invalid", "issue:retouch"}
              /\ (editHotspot = NoPoint \/ trim(prompt) = "")) =>
              /\ lastOp' = "generate:invalid"
              /\ error' # NoMsg
              /\ UNCHANGED allButError
       /\ lastOp' = "issue:retouch" =>
              /\ editHotspot # NoPoint
              /\ trim(issued.text) # ""]_vars

\* handleGenerate has refused a whitespace-only text with a hotspot selected
C12_Witness ==
    /\ lastOp = "generate:invalid"
    /\ error = "err:no-prompt"
    /\ prompt = " "
    /\ editHotspot # NoPoint
    /\ loadingMessage = NoMsg
    /\ inflight = <<>>

\* C13: when a point-edit call succeeds, editHotspot and displayHotspot are
\* both null after the step that appends the result; when it fails the
\* hotspot is left as it was.
C13_HotspotClearedOnSuccess ==
    [][/\ lastOp' = "append:retouch" =>
              editHotspot' = NoPoint /\ displayHotspot' = NoPoint
       /\ lastOp' = "failed:retouch" => UNCHANGED hotspots]_vars

\* a point-edit call has failed and the hotspot is still selected
C13_Witness ==
    /\ lastOp = "failed:retouch"
    /\ editHotspot # NoPoint
    /\ displayHotspot # NoPoint
    /\ prompt = "fix"

\* C14 (as stated): handleApplyMagicFill with isMagicFillMaskDrawn false issues no
\* external call, sets the error and changes neither history, cursor, the
\* mask surface, the stroke stack nor the instruction text.
C14_MaskFillValidation ==
    [][(lastOp' \in {"magicfill:invalid", "magicfill:return", "issue:magicfill"}
           /\ ~isMaskDrawn["magicfill"]) =>
           /\ lastOp' = "magicfill:invalid"
           /\ error' # NoMsg
           /\ UNCHANGED <<inflight, loadingMessage, histVars, maskCanvas, maskHistory,
                          magicFillPrompt, isMaskDrawn, canUndoMask>>]_vars

\* handleApplyMagicFill has refused a surface whose paint was undone, with
\* an instruction text already typed
C14_Witness ==
    /\ lastOp = "magicfill:invalid"
    /\ error = "err:paint-first"
    /\ activeTab = "magicfill"
    /\ ~isMaskDrawn["magicfill"]
    /\ magicFillPrompt = "fix"

\* C15 (as stated): after a successful mask-fill or free-instruction edit,
\* once the result is appended and the loading indicator cleared, that
\* mode's surface is transparent, its stroke stack empty, its isMaskDrawn
\* false and its canUndoMask false; mask-fill also leaves its text empty.
C15_MaskClearedOnSuccess ==
    \A m \in MaskTabs :
        (lastOp = "append:" \o m /\ loadingMessage = NoMsg) =>
            /\ maskCanvas[m] = {}
            /\ maskHistory[m] = <<>>
            /\ ~isMaskDrawn[m]
            /\ ~canUndoMask[m]
            /\ (m = "magicfill" => magicFillPrompt = "")

\* C16 (as stated): a free-instruction submit whose protect surface has no
\* paint calls generateAdjustedImage with no second image and not the
\* mask-fill operation; one whose protect surface has paint calls
\* generateMagicFillImage with the mask of that surface and not the maskless
\* operation.
C16_FreestyleRouting ==
    [][lastOp' = "issue:freestyle" =>
           IF maskCanvas["freestyle"] = {}
           THEN /\ issued.service = "generateAdjustedImage"
                /\ issued.second = NoFile
                /\ ~issued.masked
           ELSE /\ issued.service = "generateMagicFillImage"
                /\ issued.masked
                /\ issued.mask = maskCanvas["freestyle"]]_vars

\* C17 (as stated): a free-instruction submit with empty or whitespace-only
\* instruction text issues no external call and sets the error, whether the
\* text reaches FreestylePanel.handleApply or handleApplyFreestyle itself.
C17_FreestyleValidation ==
    [][/\ lastOp' = "freestyle:ignored" => error' # NoMsg
       /\ lastOp' = "issue:freestyle" => trim(issued.text) # ""]_vars

\* C18: handleApplyCombine issues an external call only with a second image
\* attached and a text that is non-empty after trimming, handleApplyFaceSwap
\* only with a second image attached; a refused submit sets the error,
\* issues no call and leaves history and the loading indicator unchanged,
\* and without a second image every submit of the two is refused.
C18_DualImageValidation ==
    [][/\ lastOp' = "issue:combine" =>
              /\ secondaryImage # NoFile
              /\ issued.second = secondaryImage
              /\ trim(issued.text) # ""
       /\ lastOp' = "issue:faceswap" =>
              /\ secondaryImage # NoFile
              /\ issued.second = secondaryImage
       /\ lastOp' \in {"combine:invalid", "faceswap:invalid"} =>
              /\ error' # NoMsg
              /\ UNCHANGED <<inflight, histVars, loadingMessage>>
       /\ (lastOp' \in {"issue:combine", "combine:invalid", "issue:faceswap",
                        "faceswap:invalid"} /\ secondaryImage = NoFile) =>
              lastOp' \in {"combine:invalid", "faceswap:invalid"}]_vars

\* handleApplyCombine has refused a whitespace-only text with a second image
\* attached
C18_Witness ==
    /\ lastOp = "combine:invalid"
    /\ error = "err:no-combine-prompt"
    /\ secondaryImage # NoFile
    /\ loadingMessage = NoMsg
    /\ inflight = <<>>

\* C19 (as stated): handleApplyAdjustment invoked with no second image
\* attached issues no external call and sets a validation error.
C19_AdjustNeedsSecond ==
    [][(lastOp' \in {"issue:adjust", "adjust:invalid"} /\ secondaryImage = NoFile) =>
           /\ lastOp' = "adjust:invalid"
           /\ inflight' = inflight
           /\ error' # NoMsg]_vars

\* C19 (amended): handleApplyAdjustment does not require a second image:
\* with a current image it sets no validation error and issues one call of
\* generateAdjustedImage with the current image, the text and secondaryImage
\* as it is, null when none is attached.
C19_AdjustSecondOptional ==
    [][(lastOp' \in {"issue:adjust", "adjust:invalid"} /\ currentImage # NoFile) =>
           /\ lastOp' = "issue:adjust"
           /\ Len(inflight') = Len(inflight) + 1
           /\ issued.service = "generateAdjustedImage"
           /\ issued.image = currentImage
           /\ issued.second = secondaryImage
           /\ error' = NoMsg]_vars

\* an adjustment has been issued with no second image attached
C19_Witness ==
    /\ lastOp = "issue:adjust"
    /\ Len(inflight) = 1
    /\ inflight[1].second = NoFile
    /\ secondaryImage = NoFile
    /\ loadingMessage = "loading:adjust"

\* C20 (as stated): handleApplyCrop never issues an external call and never
\* sets the loading indicator; with a completed selection it appends exactly
\* one snapshot; with no completed selection, or when the drawing context
\* cannot be acquired, it sets the error message and leaves history and
\* historyIndex unchanged.
C20_CropLocalAndSynchronous ==
    [][lastOp' \in {"append:crop", "crop:invalid", "crop:throw"} =>
           /\ inflight' = inflight
           /\ loadingMessage' = loadingMessage
           /\ \/ /\ completedCrop # NoCrop
                 /\ lastOp' = "append:crop"
                 /\ AppendedTo(history, historyIndex)
              \/ /\ error' \in {"err:no-crop", "err:crop-ctx"}
                 /\ UNCHANGED histVars]_vars

\* the mask whose refs and setters the mask handlers of this step picked
theMask == RefTab(activeTab)
\* the snapshot on top of a stroke stack
top(stack) == stack[Len(stack)]

\* C24 (as stated): undoStroke is the exact inverse of the most recent
\* stroke.  A pointer-down keeps a copy of the surface on the stack; an
\* undoStroke that finds a snapshot leaves the surface with the pixels that
\* snapshot was taken of, pops it, and recomputes hasPaint from the pixels
\* restored and canUndoMask from the stack; once it has popped the last
\* snapshot the surface is transparent, hasPaint and canUndoMask are false;
\* with an empty stack it changes nothing.
C24_UndoInvertsStroke ==
    [][/\ lastOp' = "startDrawing" =>
              /\ Len(maskHistory'[theMask]) = Len(maskHistory[theMask]) + 1
              /\ top(maskHistory'[theMask]).data = maskCanvas[theMask]
       /\ lastOp' = "undoMaskStroke" =>
              /\ maskCanvas'[theMask] = top(maskHistory[theMask]).data
              /\ maskHistory'[theMask] =
                     SubSeq(maskHistory[theMask], 1, Len(maskHistory[theMask]) - 1)
              /\ isMaskDrawn'[theMask] = (maskCanvas'[theMask] # {})
              /\ canUndoMask'[theMask] = (maskHistory'[theMask] # <<>>)
              /\ maskHistory'[theMask] = <<>> =>
                     /\ maskCanvas'[theMask] = {}
                     /\ ~isMaskDrawn'[theMask]
                     /\ ~canUndoMask'[theMask]
       /\ (lastOp' = "undoMaskStroke:noop" /\ maskHistory[theMask] = <<>>) =>
              UNCHANGED <<maskCanvas, maskFlags, canvasWidth>>]_vars

\* the mask of mode m is as clear() leaves it
Cleared(m) ==
    /\ maskCanvas'[m] = {}
    /\ maskHistory'[m] = <<>>
    /\ ~isMaskDrawn'[m]
    /\ ~canUndoMask'[m]

\* C25 (as stated): every call of clear() on the active mode's mask, from
\* the panel's button or at the end of a successful mask edit, leaves that
\* surface transparent, its stroke stack empty, hasPaint false and
\* canUndoMask false, whatever the mask state before.
C25_ClearLeavesMaskEmpty ==
    [][/\ lastOp' \in {"clearMask", "clearMask:noop"} => Cleared(theMask)
       /\ lastOp' = "append:magicfill" => Cleared("magicfill")
       /\ lastOp' = "append:freestyle" => Cleared("freestyle")]_vars

\* C26 (as stated): whenever no stroke is in progress, the hasPaint flag of
\* a mode whose surface is displayed is true iff that surface has a pixel
\* with non-zero alpha.
C26_HasPaintMatchesSurface ==
    NoStroke => \A m \in MaskTabs :
                    CanvasMounted(m) => (isMaskDrawn[m] <=> maskCanvas[m] # {})

\* the step ends with the resize effect having assigned the width of the
\* canvas of mode m: the window was resized, or the render changed the
\* current image or the tab and left the canvas mounted
Reallocated(m) ==
    \/ lastOp' = "resize" /\ CanvasMounted(m)
    \/ /\ lastOp' # "resize"
       /\ ResizeEffectRuns
       /\ CanvasMountedIn(error', history', historyIndex', activeTab', loadingMessage', m)

\* C27 (as stated): a resize of a mask surface clears the mask: after the
\* resize effect has reallocated a surface its state is the state after
\* clear(): surface transparent, hasPaint false, stroke stack empty.
C27_ResizeClearsMask ==
    [][\A m \in MaskTabs : Reallocated(m) => Cleared(m)]_vars

\* the last handler step took a failing path: a validation that failed, a
\* rejected call or undecodable result, a context that was not available,
\* a throw out of the handler
FailingPaths ==
    FailedOps \cup
    {"generate:invalid", "filter:invalid", "adjust:invalid", "faceswap:invalid",
     "combine:invalid", "magicfill:invalid", "freestyle:invalid", "crop:invalid",
     "magicfill:return", "freestyle:throw", "crop:throw"}

\* C30 (as stated): every failing path of every mode handler ends with
\* errorMessage set: no handler throws out of the controller and none
\* returns after a failure with errorMessage still none.
C30_NoFailureEscapes ==
    [][lastOp' \in FailingPaths => error' # NoMsg]_vars

\* ------------------------------------------- formatErrorMessage on its own
\* Every variable of App but the two the catch and finally blocks write.
besidesCatch == <<history, historyIndex, prompt, editHotspot, displayHotspot, activeTab,
                  secondaryImage, crop, completedCrop, magicFillPrompt,
                  isErasing, isMaskDrawn, maskCanvas, isDrawing, maskHistory, canUndoMask,
                  imgWidth, canvasWidth, inflight, brushSize>>

\* the context argument of the seven handlers that have a catch block
Contexts == {"retouch", "filters", "adjust", "faceswap", "combine", "magicfill", "freestyle"}

\* failure texts: those of the rejections and of dataURLtoFile, the empty
\* text, and texts that hold the words of two categories
FailureTexts ==
    {r.message : r \in Rejections} \cup {dataURLError(u).message : u \in DataURLs}
    \cup {<<>>,
          <<"did", "not", "return", "an", "image", "BLOCKED">>,
          <<"safety", "did", "not", "return", "an", "image">>,
          <<"did", "not", "return", "image">>}

\* a handler is in its try block with the value err about to be thrown
InitF ==
    /\ AppInit
    /\ calc \in [fn : {"formatErrorMessage"},
                 err : [isError : BOOLEAN, message : FailureTexts],
                 context : Contexts]

\* catch (err) { setError(formatErrorMessage(err, context)) }
\* finally { setLoadingMessage(null) }
catchBlock ==
    /\ lastOp = "init"
    /\ error' = formatErrorMessage(calc.err, calc.context)
    /\ loadingMessage' = NoMsg
    /\ lastOp' = "catch"
    /\ UNCHANGED <<besidesCatch, calc>>

SpecF == InitF /\ [][catchBlock]_vars

\* the lower-cased text of a failure; a value that is not an Error has none
failureText(err) == IF err.isError THEN toLowerCase(err.message) ELSE <<>>

policyBlock(err) ==
    includes(failureText(err), <<"blocked">>) \/ includes(failureText(err), <<"safety">>)
noResultProduced(err) ==
    includes(failureText(err), <<"did", "not", "return", "an", "image">>)

\* C29: formatErrorMessage gives every failure exactly one category, by
\* case-insensitive match on the failure text: policy block when the text
\* holds 'blocked' or 'safety'; otherwise no-result when it holds 'did not
\* return an image'; otherwise (a value that is not an Error included) a
\* generic failure. The message carries the context of the calling handler
\* and the catch block issues no call.
C29_ClassificationTotal ==
    [][lastOp' = "catch" =>
          /\ IF policyBlock(calc.err) THEN error' = "blocked:" \o calc.context
             ELSE IF noResultProduced(calc.err) THEN error' = "noresult:" \o calc.context
             ELSE error' \in {"failed:" \o calc.context, "unexpected:" \o calc.context}
          /\ inflight' = inflight]_vars

\* a text with the words of both categories, in capitals, was classified as
\* a policy block
C29_Witness ==
    /\ lastOp = "catch"
    /\ calc.err = [isError |-> TRUE,
                   message |-> <<"did", "not", "return", "an", "image", "BLOCKED">>]
    /\ error = "blocked:" \o calc.context

\* --------------------------------------------- handleImageClick on its own
\* an <img> of any natural and displayed size is shown in the Retouch tab
InitC ==
    /\ AppInit
    /\ calc \in [fn : {"handleImageClick"},
                 naturalWidth : 1 .. MaxNatural, naturalHeight : 1 .. MaxNatural,
                 clientWidth : 1 .. MaxClient, clientHeight : 1 .. MaxClient,
                 earlier : {NoPoint}, displayHotspot : {NoPoint}, editHotspot : {NoPoint}]

\* handleImageClick for a click at (offsetX, offsetY) of this <img>; earlier
\* keeps the two hotspots of the click before
imageClick(offsetX, offsetY) ==
    /\ activeTab = "retouch"
    /\ calc' = [calc EXCEPT
                  !.earlier = IF calc.displayHotspot = NoPoint THEN NoPoint
                              ELSE [display |-> calc.displayHotspot, edit |-> calc.editHotspot],
                  !.displayHotspot = [x |-> offsetX, y |-> offsetY],
                  !.editHotspot = [x |-> toNative(offsetX, calc.naturalWidth, calc.clientWidth),
                                   y |-> toNative(offsetY, calc.naturalHeight, calc.clientHeight)]]
    /\ UNCHANGED <<besidesCatch, loadingMessage, error, lastOp>>

NextC == \E offsetX \in 0 .. calc.clientWidth, offsetY \in 0 .. calc.clientHeight :
             imageClick(offsetX, offsetY)

SpecC == InitC /\ [][NextC]_vars

\* v is x * natural / client rounded to the nearest integer, halves upwards
IsRounded(v, x, natural, client) ==
    2 * client * v <= 2 * x * natural + client /\ 2 * x * natural + client < 2 * client * (v + 1)

black == 0
white == 255
opaque == 255
Alphas == {0, 1, 153}               \* transparent, barely painted, the tint's 0.6

\* both canvases filled with black
defaultColourBlack(m) == black
\* both loops writing white
markedColourWhite(m) == white

\* maskCtx.fillStyle of the first fillRect
defaultColour(m) == IF m = "magicfill" THEN black ELSE white
\* the colour the loop writes
markedColour(m) == IF m = "magicfill" THEN white ELSE black

grid(w, h) == (0 .. w - 1) \X (0 .. h - 1)

\* the loop with a threshold in the middle of the alpha range
thresholdAtHalf(m, data) ==
    [p \in DOMAIN data |-> IF data[p] > 127 THEN [rgb |-> markedColour(m), a |-> opaque]
                           ELSE [rgb |-> black, a |-> data[p]]]

\* for (i ...) if (data[i + 3] > 0) { data[i..i+2] = marked; data[i + 3] = 255 }
threshold(m, data) ==
    [p \in DOMAIN data |-> IF data[p] > 0 THEN [rgb |-> markedColour(m), a |-> opaque]
                           ELSE [rgb |-> black, a |-> data[p]]]

\* The scaled drawImage resamples as the browser chooses. weight(r, i, j, n, N)
\* is the share, in units of 1 / unit(r, n, N), that source column (or row) i
\* of n has in destination column (or row) j of N.
Resamplings == {"nearest", "linear", "area"}
unit(r, n, N) == IF r = "nearest" THEN 1 ELSE IF r = "linear" THEN 2 * N ELSE n
clamp(i, n) == IF i < 0 THEN 0 ELSE IF i > n - 1 THEN n - 1 ELSE i
nearestWeight(i, j, n, N) == IF ((2 * j + 1) * n) \div (2 * N) = i THEN 1 ELSE 0
linearWeight(i, j, n, N) ==
    LET num == (2 * j + 1) * n - N          \* the sample position, times 2N
        i0 == IF num < 0 THEN 0 - 1 ELSE num \div (2 * N)
        t == num - i0 * 2 * N
    IN (IF clamp(i0, n) = i THEN 2 * N - t ELSE 0) + (IF clamp(i0 + 1, n) = i THEN t ELSE 0)
areaWeight(i, j, n, N) ==
    LET lo == IF j * n > i * N THEN j * n ELSE i * N
        hi == IF (j + 1) * n < (i + 1) * N THEN (j + 1) * n ELSE (i + 1) * N
    IN IF hi > lo THEN hi - lo ELSE 0
weight(r, i, j, n, N) ==
    IF r = "nearest" THEN nearestWeight(i, j, n, N)
    ELSE IF r = "linear" THEN linearWeight(i, j, n, N)
    ELSE areaWeight(i, j, n, N)

RECURSIVE sumOver(_, _)
sumOver(f, S) == IF S = {} THEN 0
                 ELSE LET x == CHOOSE x \in S : TRUE IN f[x] + sumOver(f, S \ {x})

\* the alpha, of 255, of destination pixel P of the resampled scratch canvas
resampledAlpha(r, scratch, w, h, W, H, P) ==
    LET share == [p \in grid(w, h) |->
                     scratch[p].a * weight(r, p[1], P[1], w, W) * weight(r, p[2], P[2], h, H)]
        whole == opaque * unit(r, w, W) * unit(r, h, H)
    IN (2 * opaque * sumOver(share, grid(w, h)) + whole) \div (2 * whole)

\* globalCompositeOperation = 'source-over' on an opaque destination
sourceOver(rgb, a, dst) == (rgb * a + dst * (opaque - a)) \div opaque

\* maskCtx.fillRect, then maskCtx.drawImage(tempMaskCanvas, 0, 0, W, H)
drawScaled(m, r, scratch, w, h, W, H) ==
    [P \in grid(W, H) |->
        sourceOver(markedColour(m), resampledAlpha(r, scratch, w, h, W, H, P), defaultColour(m))]

NoMask == <<>>
SurfaceHeights == {1, 2}            \* heights of a mask canvas that is rasterized

\* a mask canvas of any size and content, an image of any natural size
InitR ==
    /\ AppInit
    /\ \E w \in 1 .. MaxSurface, h \in SurfaceHeights, W, H \in 1 .. MaxNatural :
         calc \in [fn : {"rasterize"}, width : {w}, height : {h},
                   data : [grid(w, h) -> Alphas],
                   naturalWidth : {W}, naturalHeight : {H},
                   imageSmoothing : Resamplings,
                   scratch : {[m \in MaskTabs |-> NoMask]},
                   mask : {[m \in MaskTabs |-> NoMask]}]

rasterize(m) ==
    /\ calc.mask[m] = NoMask
    /\ LET temp == threshold(m, calc.data) IN
       calc' = [calc EXCEPT
                  !.scratch[m] = temp,
                  !.mask[m] = drawScaled(m, calc.imageSmoothing, temp, calc.width, calc.height,
                                         calc.naturalWidth, calc.naturalHeight)]
    /\ UNCHANGED <<besidesCatch, loadingMessage, error, lastOp>>

NextR == \E m \in MaskTabs : rasterize(m)

SpecR == InitR /\ [][NextR]_vars

\* C21: an all-transparent surface of any size rasterizes to a native mask
\* whose every pixel is the default colour of the mode: black in fill mode
\* (Magic Fill), white in protect mode (Freestyle).
C21_UnpaintedGivesDefault ==
    (\A p \in DOMAIN calc.data : calc.data[p] = 0) =>
        /\ calc.mask["magicfill"] # NoMask =>
              /\ DOMAIN calc.mask["magicfill"] = grid(calc.naturalWidth, calc.naturalHeight)
              /\ \A P \in DOMAIN calc.mask["magicfill"] : calc.mask["magicfill"][P] = black
        /\ calc.mask["freestyle"] # NoMask =>
              /\ DOMAIN calc.mask["freestyle"] = grid(calc.naturalWidth, calc.naturalHeight)
              /\ \A P \in DOMAIN calc.mask["freestyle"] : calc.mask["freestyle"][P] = white

\* an unpainted 2 x 1 surface was rasterized to 3 x 2 in both modes
C21_Witness ==
    /\ calc.width = 2 /\ calc.height = 1 /\ calc.naturalWidth = 3 /\ calc.naturalHeight = 2
    /\ \A p \in DOMAIN calc.data : calc.data[p] = 0
    /\ calc.mask["magicfill"] # NoMask /\ calc.mask["freestyle"] # NoMask

\* C22: for the same painted surface and the same native size the mask of
\* fill mode and the mask of protect mode are complements pixel for pixel:
\* a native pixel is white in the one iff it is black in the other.
C22_InversionLaw ==
    (calc.mask["magicfill"] # NoMask /\ calc.mask["freestyle"] # NoMask) =>
        /\ DOMAIN calc.mask["magicfill"] = DOMAIN calc.mask["freestyle"]
        /\ \A P \in DOMAIN calc.mask["magicfill"] :
              /\ calc.mask["magicfill"][P] = white <=> calc.mask["freestyle"][P] = black
              /\ calc.mask["magicfill"][P] = black <=> calc.mask["freestyle"][P] = white

\* a 2 x 2 surface painted in one corner was rasterized to 3 x 3 in both
\* modes; the two masks have a white and a black pixel each
C22_Witness ==
    /\ calc.width = 2 /\ calc.height = 2 /\ calc.naturalWidth = 3 /\ calc.naturalHeight = 3
    /\ calc.data[<<0, 0>>] = 153
    /\ \A p \in DOMAIN calc.data \ {<<0, 0>>} : calc.data[p] = 0
    /\ calc.mask["magicfill"] # NoMask /\ calc.mask["freestyle"] # NoMask
    /\ calc.mask["magicfill"][<<0, 0>>] = white /\ calc.mask["magicfill"][<<2, 2>>] = black
    /\ calc.mask["freestyle"][<<0, 0>>] = black /\ calc.mask["freestyle"][<<2, 2>>] = white

\* the centre of native pixel P lies in the scaled image of display pixel p
CentreInScaled(P, p) ==
    /\ 2 * p[1] * calc.naturalWidth <= (2 * P[1] + 1) * calc.width
    /\ (2 * P[1] + 1) * calc.width < 2 * (p[1] + 1) * calc.naturalWidth
    /\ 2 * p[2] * calc.naturalHeight <= (2 * P[2] + 1) * calc.height
    /\ (2 * P[2] + 1) * calc.height < 2 * (p[2] + 1) * calc.naturalHeight

\* C23: the rasterization thresholds on alpha > 0 and keeps positions: in
\* the scratch buffer every pixel with alpha > 0, whatever the alpha, is the
\* marked colour at full opacity and every pixel with alpha 0 is untouched;
\* a native pixel has the marked colour only if it lies in the scaled image
\* of a painted display pixel; at scale 1 it has the marked colour iff its
\* display pixel is painted and is default otherwise.
C23_ThresholdAndPosition ==
    \A m \in MaskTabs : calc.mask[m] # NoMask =>
        LET marked == IF m = "magicfill" THEN white ELSE black
            default == IF m = "magicfill" THEN black ELSE white
        IN
        /\ \A p \in DOMAIN calc.data :
              IF calc.data[p] > 0
              THEN calc.scratch[m][p] = [rgb |-> marked, a |-> 255]
              ELSE calc.scratch[m][p].a = 0
        /\ \A P \in DOMAIN calc.mask[m] :
              calc.mask[m][P] = marked =>
                  \E p \in DOMAIN calc.data : calc.data[p] > 0 /\ CentreInScaled(P, p)
        /\ (calc.width = calc.naturalWidth /\ calc.height = calc.naturalHeight) =>
              \A P \in DOMAIN calc.mask[m] :
                  calc.mask[m][P] = IF calc.data[P] > 0 THEN marked ELSE default

\* a 1 x 2 surface with a barely painted pixel above a transparent one was
\* rasterized to 2 x 2 in fill mode: the upper row is white, the lower black
C23_Witness ==
    /\ calc.width = 1 /\ calc.height = 2 /\ calc.naturalWidth = 2 /\ calc.naturalHeight = 2
    /\ calc.data[<<0, 0>>] = 1 /\ calc.data[<<0, 1>>] = 0
    /\ calc.mask["magicfill"] # NoMask
    /\ calc.mask["magicfill"][<<0, 0>>] = white /\ calc.mask["magicfill"][<<1, 0>>] = white
    /\ calc.mask["magicfill"][<<0, 1>>] = black /\ calc.mask["magicfill"][<<1, 1>>] = black

\* C33: in every reachable state canUndoMask of each mode is true iff the
\* stroke stack of that mode is non-empty; canUndo is true iff the cursor is
\* above 0 and canRedo iff the cursor is below the last index.
C33_UndoFlagsFollowStacks ==
    /\ \A m \in MaskTabs : canUndoMask[m] <=> Len(maskHistory[m]) > 0
    /\ canUndo <=> historyIndex > 0
    /\ canRedo <=> historyIndex < Len(history) - 1

\* a stroke was started and undone on the magic fill surface, with two
\* snapshots in the history and the cursor back on the first
C33_Witness ==
    /\ lastOp = "undoMaskStroke"
    /\ activeTab = "magicfill"
    /\ ~canUndoMask["magicfill"] /\ maskHistory["magicfill"] = <<>>
    /\ Len(history) = 2 /\ historyIndex = 0
    /\ ~canUndo /\ canRedo

\* the mask that is not the one of the active tab
otherMask == IF activeTab = "magicfill" THEN "freestyle" ELSE "magicfill"

\* C32: every mask operation (stroke start, move and end, undoStroke, clear,
\* brush size and eraser toggle) performed in the Magic Fill tab leaves the
\* pixels, stroke stack, isErasing, brush size, hasPaint and canUndoMask of
\* the Freestyle mask unchanged, and the same the other way round.
C32_MasksIndependent ==
    [][(activeTab \in MaskTabs /\ activeTab' = activeTab) =>
          /\ maskCanvas'[otherMask] = maskCanvas[otherMask]
          /\ maskHistory'[otherMask] = maskHistory[otherMask]
          /\ isErasing'[otherMask] = isErasing[otherMask]
          /\ brushSize'[otherMask] = brushSize[otherMask]
          /\ isMaskDrawn'[otherMask] = isMaskDrawn[otherMask]
          /\ canUndoMask'[otherMask] = canUndoMask[otherMask]]_vars

\* the Magic Fill mask was cleared while the Freestyle mask had paint, a
\* stroke to undo, the eraser on and the large brush
C32_Witness ==
    /\ activeTab = "magicfill"
    /\ lastOp = "clearMask"
    /\ maskHistory["magicfill"] = <<>> /\ brushSize["magicfill"] = 15
    /\ isMaskDrawn["freestyle"] /\ canUndoMask["freestyle"]
    /\ Len(maskHistory["freestyle"]) = 1
    /\ isErasing["freestyle"] /\ brushSize["freestyle"] = 60

\* C34: a stroke starts only by pointer-down, in the tab of the mask and
\* with no external call in flight; a stroke start pushes exactly one
\* snapshot of the whole surface on the stack of that mask and on no other;
\* the only other changes of a stack are the pop of an undoMaskStroke and
\* its emptying, so its length is the strokes started minus the strokes
\* undone since it was last empty.
C34_StrokeStartPushesOne ==
    [][/\ (\E m \in MaskTabs : isDrawing'[m] /\ ~isDrawing[m]) => lastOp' = "startDrawing"
       /\ lastOp' = "startDrawing" =>
              /\ activeTab \in MaskTabs /\ activeTab' = activeTab
              /\ inflight = <<>> /\ ~isLoading
              /\ isDrawing'[activeTab]
              /\ maskHistory'[activeTab] =
                     Append(maskHistory[activeTab],
                            [width |-> canvasWidth[activeTab], data |-> maskCanvas[activeTab]])
              /\ maskHistory'[otherMask] = maskHistory[otherMask]
       /\ \A m \in MaskTabs : maskHistory'[m] # maskHistory[m] =>
              \/ lastOp' = "startDrawing" /\ Len(maskHistory'[m]) = Len(maskHistory[m]) + 1
              \/ /\ lastOp' = "undoMaskStroke"
                 /\ maskHistory'[m] = SubSeq(maskHistory[m], 1, Len(maskHistory[m]) - 1)
              \/ maskHistory'[m] = <<>>]_vars

\* a second stroke has started on a painted magic fill surface, after an
\* edit was made: the stack holds the empty and the painted surface
C34_Witness ==
    /\ lastOp = "startDrawing"
    /\ activeTab = "magicfill" /\ isDrawing["magicfill"]
    /\ Len(history) = 2
    /\ Len(maskHistory["magicfill"]) = 2
    /\ maskHistory["magicfill"][1].data = {}
    /\ maskHistory["magicfill"][2].data # {}
    /\ maskHistory["freestyle"] = <<>>

\* C35: a pointer-move of a stroke with the eraser off never unpaints a
\* painted pixel and with the eraser on never paints an unpainted one; a
\* pointer-move with no stroke in progress changes neither the surface nor
\* the stroke stack; pointer-up or pointer-leave ends the stroke and sets
\* hasPaint to whether the surface has a painted pixel.
C35_StrokeCompositing ==
    [][/\ lastOp' = "draw" =>
              /\ isDrawing[theMask]
              /\ ~isErasing[theMask] => maskCanvas[theMask] \subseteq maskCanvas'[theMask]
              /\ isErasing[theMask] => maskCanvas'[theMask] \subseteq maskCanvas[theMask]
       /\ lastOp' = "draw:ignored" => UNCHANGED <<maskCanvas, maskHistory>>
       /\ lastOp' = "stopDrawing" =>
              /\ isDrawing[theMask] /\ ~isDrawing'[theMask]
              /\ maskCanvas'[theMask] = maskCanvas[theMask]
              /\ isMaskDrawn'[theMask] <=> maskCanvas'[theMask] # {}]_vars

\* in a stroke with the eraser on, one of the two painted pixels of the
\* magic fill surface has been removed
C35_Witness ==
    /\ lastOp = "draw"
    /\ activeTab = "magicfill" /\ isDrawing["magicfill"] /\ isErasing["magicfill"]
    /\ maskHistory["magicfill"] # <<>>
    /\ top(maskHistory["magicfill"]).data = {1, 2}
    /\ maskCanvas["magicfill"] = {2}

\* C36: when a call issued with history h and cursor c completes with a
\* result, the history becomes h[0..c] followed by the result and the
\* cursor points to the result, which so stands directly after the
\* snapshot that was sent, whatever undo, redo, reset or upload was
\* performed while the call was in flight.
C36_ResultFollowsSentSnapshot ==
    [][lastOp' \in AsyncAppendOps =>
          \E k \in 1 .. Len(inflight) :
              LET call == inflight[k] IN
              /\ inflight' = RemoveAt(inflight, k)
              /\ call.image = call.h[call.i + 1]
              /\ Len(history') = call.i + 2
              /\ SubSeq(history', 1, call.i + 1) = SubSeq(call.h, 1, call.i + 1)
              /\ history'[call.i + 1] = call.image
              /\ history'[call.i + 2] \notin Range(call.h) \cup Range(history)
              /\ historyIndex' = call.i + 1]_vars

\* a result stands after the first snapshot, which was sent, and not after
\* the snapshot that came to be the current one while the call was in flight
C36_Witness ==
    /\ lastOp \in AsyncAppendOps
    /\ history = <<1, 3>>
    /\ historyIndex = 1
    /\ inflight = <<>>

\* C37: a selected hotspot always refers to the current snapshot: whenever
\* the current snapshot changes (an append from any mode, undo, redo,
\* reset, upload) the hotspot is cleared, and editHotspot is null exactly
\* when displayHotspot is null.
C37_HotspotOfCurrentSnapshot ==
    [][/\ currentImage' # currentImage =>
              editHotspot' = NoPoint /\ displayHotspot' = NoPoint
       /\ (editHotspot' = NoPoint) <=> (displayHotspot' = NoPoint)]_vars

\* C38: a hotspot selected by a click inside the displayed image, that is
\* with 0 <= x < clientWidth and 0 <= y < clientHeight, is a native pixel
\* coordinate: 0 <= hx <= naturalWidth - 1 and 0 <= hy <= naturalHeight - 1,
\* for every pair of positive native and display dimensions.
C38_HotspotInsideNative ==
    /\ calc.fn = "handleImageClick"
    /\ calc.displayHotspot # NoPoint
    /\ calc.displayHotspot.x < calc.clientWidth
    /\ calc.displayHotspot.y < calc.clientHeight
    => /\ calc.editHotspot.x \in 0 .. calc.naturalWidth - 1
       /\ calc.editHotspot.y \in 0 .. calc.naturalHeight - 1

\* C39: a new upload discards all mask state of the previous image: after
\* handleImageUpload both stroke stacks are empty, both isMaskDrawn flags
\* are false and both canUndoMask flags are false.
C39_UploadDiscardsMasks ==
    lastOp = "upload" =>
        \A m \in MaskTabs : /\ maskHistory[m] = <<>>
                            /\ ~isMaskDrawn[m]
                            /\ ~canUndoMask[m]

\* C40: magic fill is never invoked with a mask that marks nothing: whenever
\* handleApplyMagicFill issues generateMagicFillImage, the mask canvas that
\* was rasterized for the call had at least one pixel of non-zero alpha.
C40_MagicFillMaskMarksSomething ==
    lastOp = "issue:magicfill" =>
        /\ inflight # <<>>
        /\ inflight[Len(inflight)].service = "generateMagicFillImage"
        /\ inflight[Len(inflight)].mask # {}

\* ------------------------------------------------------ the object URLs
\* The object URLs that App and CombinePanel create to preview a File.
\* calc holds the files the three App effects depend on, the URL state of
\* both components, the URL each pending effect cleanup revokes, and the
\* browser's count of created URLs with the set of revoked ones. A step is
\* a commit with its cleanups and effects and the re-render they set off.
MaxURLs == 5         \* object URLs the model lets be created
MaxPreviewed == 2    \* distinct files that are previewed
NoUrl == 0           \* null URL state; the created URLs are 1 .. calc.created

previewed == {"currentImage", "originalImage", "secondaryImage"}

InitU ==
    /\ AppInit
    /\ calc = [fn |-> "objectURLs", mounted |-> TRUE,
               file |-> [d \in previewed |-> NoFile],
               url |-> [d \in previewed |-> NoUrl],
               cleanup |-> [d \in previewed |-> NoUrl],
               combinePanel |-> FALSE, panelUrl |-> NoUrl, panelCleanup |-> NoUrl,
               created |-> 0, revoked |-> {}]

\* URL.revokeObjectURL(u) as the cleanups call it: only for a non-null u
revokeObjectURL(c, u) ==
    IF u = NoUrl THEN c ELSE [c EXCEPT !.revoked = @ \cup {u}]

\* one of the three effects of App, for the dependency d whose value in
\* this render is f: the cleanup of its earlier run, then the effect
appEffect(c, d, f) ==
    IF f = c.file[d] THEN c
    ELSE LET r == revokeObjectURL(c, c.cleanup[d]) IN
         IF f # NoFile
         THEN [r EXCEPT !.file[d] = f, !.created = @ + 1,
                        !.url[d] = r.created + 1, !.cleanup[d] = r.created + 1]
         ELSE [r EXCEPT !.file[d] = f, !.url[d] = NoUrl, !.cleanup[d] = NoUrl]

\* the effect of CombinePanel for the secondaryImage f of this render; its
\* cleanup revokes the secondaryImageUrl of the render the effect ran in,
\* which is the state as it was before the effect set it
panelEffect(c, f, rendered) ==
    IF ~rendered
    THEN IF c.combinePanel
         THEN [revokeObjectURL(c, c.panelCleanup) EXCEPT
                   !.combinePanel = FALSE, !.panelUrl = NoUrl, !.panelCleanup = NoUrl]
         ELSE c
    ELSE IF c.combinePanel /\ f = c.file["secondaryImage"] THEN c
    ELSE LET r == IF c.combinePanel THEN revokeObjectURL(c, c.panelCleanup) ELSE c
             seen == IF c.combinePanel THEN c.panelUrl ELSE NoUrl
         IN  IF f # NoFile
             THEN [r EXCEPT !.combinePanel = TRUE, !.created = @ + 1,
                            !.panelUrl = r.created + 1, !.panelCleanup = seen]
             ELSE [r EXCEPT !.combinePanel = TRUE,
                            !.panelUrl = NoUrl, !.panelCleanup = seen]

committed(cur, orig, sec, panel) ==
    appEffect(appEffect(appEffect(panelEffect(calc, sec, panel),
                                  "currentImage", cur),
                        "originalImage", orig),
              "secondaryImage", sec)

\* a commit of App in which currentImage, originalImage and secondaryImage
\* are cur, orig and sec and CombinePanel is rendered or not; a secondary
\* image is chosen in the panel, and the panel is opened by a tab button,
\* which changes no file
commit(cur, orig, sec, panel) ==
    /\ calc.mounted
    /\ (cur = NoFile) <=> (orig = NoFile)
    /\ panel \/ sec # NoFile => cur # NoFile
    /\ sec # calc.file["secondaryImage"] /\ sec # NoFile => calc.combinePanel /\ panel
    /\ panel /\ ~calc.combinePanel =>
           /\ calc.file["currentImage"] # NoFile
           /\ <<cur, orig, sec>> = <<calc.file["currentImage"], calc.file["originalImage"],
                                     calc.file["secondaryImage"]>>
    /\ \/ cur # calc.file["currentImage"] \/ orig # calc.file["originalImage"]
       \/ sec # calc.file["secondaryImage"] \/ panel # calc.combinePanel
    /\ committed(cur, orig, sec, panel).created <= MaxURLs
    /\ calc' = committed(cur, orig, sec, panel)
    /\ UNCHANGED <<besidesCatch, loadingMessage, error, lastOp>>

\* handleDownload: the link's URL is created and revoked in the handler
handleDownload ==
    /\ calc.mounted
    /\ calc.file["currentImage"] # NoFile
    /\ calc.created < MaxURLs
    /\ calc' = revokeObjectURL([calc EXCEPT !.created = @ + 1], calc.created + 1)
    /\ UNCHANGED <<besidesCatch, loadingMessage, error, lastOp>>

\* App is unmounted: every pending cleanup runs
unmount ==
    /\ calc.mounted
    /\ calc' = [revokeObjectURL(revokeObjectURL(revokeObjectURL(
                    panelEffect(calc, calc.file["secondaryImage"], FALSE),
                    calc.cleanup["currentImage"]), calc.cleanup["originalImage"]),
                    calc.cleanup["secondaryImage"])
                EXCEPT !.mounted = FALSE,
                       !.url = [d \in previewed |-> NoUrl],
                       !.cleanup = [d \in previewed |-> NoUrl]]
    /\ UNCHANGED <<besidesCatch, loadingMessage, error, lastOp>>

NextU ==
    \/ \E cur, orig, sec \in 0 .. MaxPreviewed, panel \in BOOLEAN :
           commit(cur, orig, sec, panel)
    \/ handleDownload
    \/ unmount

SpecU == InitU /\ [][NextU]_vars

\* the URLs a mounted component holds in its state, which its <img> shows
displayed ==
    IF ~calc.mounted THEN {}
    ELSE ({calc.url[d] : d \in previewed}
          \cup (IF calc.combinePanel THEN {calc.panelUrl} ELSE {})) \ {NoUrl}

\* C31: every object URL created for a preview is released within its
\* scope: once a commit's effects have run, a URL that is not revoked is
\* the one a mounted component displays for the file it now previews, a
\* displayed URL is not revoked, and after App unmounts no created URL
\* remains unrevoked.
C31_ObjectURLsReleasedInScope ==
    calc.fn = "objectURLs" =>
        /\ (1 .. calc.created) \ calc.revoked \subseteq displayed
        /\ displayed \cap calc.revoked = {}
        /\ ~calc.mounted => calc.revoked = 1 .. calc.created
====
